---- MODULE Spec2Model ----
(***************************************************************************)
(* Versioned note storage of notes-mcp (src/src/storage.py), the web       *)
(* server's delete handler (src/src/web_server.py) and the lexical index   *)
(* rebuild (src/src/search.py).                                            *)
(*                                                                         *)
(* A string is a sequence of one-character strings, so that sanitizing,    *)
(* globbing, substring tests, splitting and the ordering of file names are *)
(* computed character by character, as Python computes them.               *)
(*                                                                         *)
(* In Spec the operations run one at a time, each from its call to its     *)
(* return.  The wall clock never goes back; it may stay on one tick across *)
(* several calls.  A time is rendered with the separators of isoformat()   *)
(* and one digit per field: "2-1T0:<second>", then ".<fraction>" unless    *)
(* the fraction is zero.                                                   *)
(*                                                                         *)
(* last, obs and nstores record history and are read by no operation.  An  *)
(* operation that leaves the files as they are (a read, a delete that      *)
(* finds nothing) leaves last as it is.                                    *)
(***************************************************************************)
EXTENDS Integers, Sequences, FiniteSets, TLC

VARIABLES
    dirs,       \* names of the directories directly under base_dir
    files,      \* <<directory name, file name>> -> content; directory <<>> is base_dir
    clock,      \* the wall clock datetime.now() reads, in ticks
    web_index,  \* web_server.searcher.index: project -> title -> entry
    last,       \* history: the last call that changed the store or an index
    obs,        \* history: one result of a retrieve_note without a version
    nstores,    \* history: number of store_note calls made
    index,      \* server.searcher.index: project -> title -> entry
    vector,     \* server.vector_store: its client and its collection
    tasks,      \* the tool calls in flight, each with its position and its locals
    seen,       \* history: which index a search read while a rebuild was in flight
    call        \* one call of a function under test: its arguments and its result

\* the state of the MCP server process (server.py) besides the files
server_vars == <<index, vector, tasks, seen, call>>

vars == <<dirs, files, clock, web_index, last, obs, nstores, server_vars>>

---------------------------------------------------------------------------
(* Bounds of the model *)

MaxClock == 2        \* the clock stops after this many ticks
MicrosPerSecond == 2 \* ticks per second (scaled down from 10^6)
MaxStores == 3       \* store_note calls per behaviour
MaxLen == 3          \* length of a name given to the sanitizer

---------------------------------------------------------------------------
(* Characters and strings *)

\* Python's ord() on the characters the model uses
CodePoint ==
    (" " :> 32) @@ ("-" :> 45) @@ ("." :> 46) @@ ("/" :> 47) @@
    ("0" :> 48) @@ ("1" :> 49) @@ ("2" :> 50) @@ ("3" :> 51) @@ ("4" :> 52) @@
    ("5" :> 53) @@ ("6" :> 54) @@ ("7" :> 55) @@ ("8" :> 56) @@ ("9" :> 57) @@
    (":" :> 58) @@ ("A" :> 65) @@ ("N" :> 78) @@ ("P" :> 80) @@ ("Q" :> 81) @@
    ("T" :> 84) @@ ("_" :> 95) @@ ("d" :> 100) @@ ("m" :> 109)

Digit == <<"0", "1", "2", "3", "4", "5", "6", "7", "8", "9">>

\* str.isalnum() on one character
isalnum(c) == c \in {"0", "1", "2", "3", "4", "5", "6", "7", "8", "9",
                     "A", "N", "P", "Q", "T", "d", "m"}

\* a < b for Python strings: lexicographic by code point, a proper prefix is smaller
StrLT(a, b) ==
    \E i \in 1..(Len(a) + 1) :
        /\ i <= Len(b)
        /\ \A j \in 1..(i - 1) : a[j] = b[j]
        /\ (i = Len(a) + 1 \/ CodePoint[a[i]] < CodePoint[b[i]])

\* s.replace(old, new) for one-character old and new
RECURSIVE Replace(_, _, _)
Replace(s, old, new) ==
    IF s = <<>> THEN <<>>
    ELSE <<IF Head(s) = old THEN new ELSE Head(s)>> \o Replace(Tail(s), old, new)

RECURSIVE LStrip(_)
LStrip(s) == IF s # <<>> /\ Head(s) = " " THEN LStrip(Tail(s)) ELSE s

RECURSIVE RStrip(_)
RStrip(s) ==
    IF s # <<>> /\ s[Len(s)] = " " THEN RStrip(SubSeq(s, 1, Len(s) - 1)) ELSE s

\* s.strip()
Strip(s) == RStrip(LStrip(s))

StartsWith(s, p) == Len(p) <= Len(s) /\ SubSeq(s, 1, Len(p)) = p

EndsWith(s, x) == Len(x) <= Len(s) /\ SubSeq(s, Len(s) - Len(x) + 1, Len(s)) = x

\* sub in s
Contains(sub, s) ==
    \E i \in 0..(Len(s) - Len(sub)) : SubSeq(s, i + 1, i + Len(sub)) = sub

\* the largest index of character c in s, 0 when s has no c
LastIndex(s, c) ==
    IF \E i \in 1..Len(s) : s[i] = c
    THEN CHOOSE i \in 1..Len(s) : s[i] = c /\ \A j \in (i + 1)..Len(s) : s[j] # c
    ELSE 0

\* Path.stem: the name without its last suffix
Stem(name) ==
    LET k == LastIndex(name, ".")
    IN  IF 1 < k /\ k < Len(name) THEN SubSeq(name, 1, k - 1) ELSE name

\* s.split("_")[-1]
SplitLast(s) == SubSeq(s, LastIndex(s, "_") + 1, Len(s))

\* s.rsplit("_", 1)
RSplit(s) ==
    LET k == LastIndex(s, "_")
    IN  IF k = 0 THEN <<s>> ELSE <<SubSeq(s, 1, k - 1), SubSeq(s, k + 1, Len(s))>>

MdSuffix == <<".", "m", "d">>

---------------------------------------------------------------------------
(* Inputs *)

Projects == {<<"P">>, <<"Q">>}

\* "N A" sanitizes to "N_A", which begins with "N_"
Titles == {<<"N">>, <<"N", " ", "A">>}

Contents == {"c1", "c2"}

\* version=None (an empty version string is treated the same: "if version:")
NoVersion == <<>>

---------------------------------------------------------------------------
(* storage.py *)

\* datetime.now().isoformat() at tick n: date "2-1", hour 0, the second, and the
\* fraction, which isoformat leaves out when it is zero
isoformat(n) ==
    LET second == n \div MicrosPerSecond
        micro  == n % MicrosPerSecond
    IN  <<"2", "-", "1", "T", "0", ":", Digit[second + 1]>>
        \o (IF micro = 0 THEN <<>> ELSE <<".", Digit[micro + 1]>>)

\* a sanitizer that leaves the inner spaces as they are
Sanitize_keeps_spaces(raw) ==
    Strip(SelectSeq(raw, LAMBDA c : isalnum(c) \/ c \in {" ", "-", "_"}))

\* "".join(c for c in raw if c.isalnum() or c in (" ", "-", "_")).strip().replace(" ", "_")
Sanitize(raw) ==
    Replace(Strip(SelectSeq(raw, LAMBDA c : isalnum(c) \/ c \in {" ", "-", "_"})),
            " ", "_")

\* _get_project_dir: the directory of a project, base_dir / safe_project
project_dir_of(project) == Sanitize(project)

\* project_dir.mkdir(exist_ok=True): base_dir / "" is base_dir itself
mkdir(ds, project) ==
    IF project_dir_of(project) = <<>> THEN ds ELSE ds \cup {project_dir_of(project)}

\* a file name with the timestamp as isoformat() gives it
generate_filename_with_colons(title, n) ==
    Sanitize(title) \o <<"_">> \o isoformat(n) \o MdSuffix

\* _generate_filename(title) at tick n
generate_filename(title, n) ==
    Sanitize(title) \o <<"_">> \o Replace(isoformat(n), ":", "-") \o MdSuffix

\* the names in directory d
names_in(fls, d) == {p[2] : p \in {q \in DOMAIN fls : q[1] = d}}

\* project_dir.glob(prefix + "*.md"), prefix without glob characters
glob(fls, d, prefix) ==
    {n \in names_in(fls, d) :
        /\ Len(n) >= Len(prefix) + Len(MdSuffix)
        /\ StartsWith(n, prefix)
        /\ EndsWith(n, MdSuffix)}

\* the largest name of a non-empty set
MaxName(S) == CHOOSE n \in S : \A m \in S : m = n \/ StrLT(m, n)

\* sorted(S, reverse=True)
RECURSIVE sorted_reverse(_)
sorted_reverse(S) ==
    IF S = {} THEN <<>>
    ELSE LET m == MaxName(S) IN <<m>> \o sorted_reverse(S \ {m})

\* sorted(S)
RECURSIVE sorted(_)
sorted(S) ==
    IF S = {} THEN <<>>
    ELSE LET m == MaxName(S) IN sorted(S \ {m}) \o <<m>>

NotFound == [ok |-> FALSE, error |-> "FileNotFoundError"]

\* the file retrieve_note selects as target_file; <<>> where it raises FileNotFoundError
retrieve_target(fls, project, title, version) ==
    LET safe_title   == Sanitize(title)
        versions     == sorted_reverse(glob(fls, project_dir_of(project), safe_title \o <<"_">>))
        version_safe == Replace(version, ":", "-")
        matching     == {i \in 1..Len(versions) : Contains(version_safe, versions[i])}
    IN  IF versions = <<>> THEN <<>>
        ELSE IF version # NoVersion
             THEN IF matching = {} THEN <<>>
                  ELSE versions[CHOOSE i \in matching : \A j \in matching : i <= j]
             ELSE versions[1]

\* what retrieve_note returns (content, timestamp) or raises on the files fls
retrieve_result(fls, project, title, version) ==
    LET target_file == retrieve_target(fls, project, title, version)
    IN  IF target_file = <<>> THEN NotFound
        ELSE [ok        |-> TRUE,
              content   |-> fls[<<project_dir_of(project), target_file>>],
              timestamp |-> Replace(SplitLast(Stem(target_file)), "-", ":")]

\* list_projects: the sorted display names of the directories
list_projects_result(ds) == sorted({Replace(d, "_", " ") : d \in ds})

\* the (title, timestamp) pairs list_notes and get_all_notes parse from directory d
parsed_notes(fls, d) ==
    LET stems == {n \in glob(fls, d, <<>>) : Len(RSplit(Stem(n))) = 2}
    IN  {[title     |-> Replace(RSplit(Stem(n))[1], "_", " "),
          timestamp |-> Replace(RSplit(Stem(n))[2], "-", ":"),
          path      |-> <<d, n>>] : n \in stems}

\* list_notes: one {title, latest_version} per parsed title, sorted by title
RECURSIVE notes_list(_, _)
notes_list(notes, titles) ==
    IF titles = <<>> THEN <<>>
    ELSE <<[title          |-> Head(titles),
            latest_version |-> MaxName({n.timestamp : n \in {m \in notes : m.title = Head(titles)}})]>>
         \o notes_list(notes, Tail(titles))

\* a list_notes that lists the notes of every directory
list_notes_result_of_all(fls, project) ==
    LET notes  == UNION {parsed_notes(fls, d) : d \in {q[1] : q \in DOMAIN fls}}
        titles == sorted({n.title : n \in notes})
    IN  [i \in 1..Len(titles) |->
            [title |-> titles[i],
             latest_version |-> MaxName({n.timestamp : n \in {m \in notes : m.title = titles[i]}})]]

\* a list_notes that keeps the smallest timestamp of each title
list_notes_result_keeps_oldest(fls, project) ==
    LET notes  == parsed_notes(fls, project_dir_of(project))
        titles == sorted({n.title : n \in notes})
        oldest(title) == CHOOSE t \in {n.timestamp : n \in {m \in notes : m.title = title}} :
                            \A n \in {m \in notes : m.title = title} :
                                n.timestamp = t \/ StrLT(t, n.timestamp)
    IN  [i \in 1..Len(titles) |-> [title |-> titles[i], latest_version |-> oldest(titles[i])]]

\* NotesStorage.list_notes
list_notes_result(fls, project) ==
    LET notes == parsed_notes(fls, project_dir_of(project))
    IN  notes_list(notes, sorted({n.title : n \in notes}))

\* get_all_notes: {project, title, path, timestamp} of every parsed file of every
\* directory (files directly in base_dir are skipped); the order is the file system's
get_all_notes(fls, ds) ==
    UNION {{[project   |-> Replace(d, "_", " "),
             title     |-> n.title,
             path      |-> n.path,
             timestamp |-> n.timestamp] : n \in parsed_notes(fls, d)} : d \in ds}

\* the files that are the versions of note (project, title): those of the project's
\* directory named <sanitized title>_<timestamp>.md
versions_of(fls, project, title) ==
    {n.path : n \in {m \in parsed_notes(fls, project_dir_of(project)) :
                        m.title = Replace(Sanitize(title), "_", " ")}}

\* NotesStorage.delete_note, which server.py and the tests call: with a version, the
\* one unit of the note whose timestamp is exactly that version; without, every unit
\* of the note; NotFound when there is none
delete_note_result(fls, project, title, version) ==
    LET units  == versions_of(fls, project, title)
        chosen == IF version = NoVersion THEN units
                  ELSE {u \in units :
                          SplitLast(Stem(u[2])) = Replace(version, ":", "-")}
    IN  IF chosen = {} THEN NotFound
        ELSE [ok |-> TRUE, deleted |-> Cardinality(chosen), files |-> chosen]

\* unlink of every path in gone
unlink(fls, gone) == [q \in (DOMAIN fls) \ gone |-> fls[q]]

---------------------------------------------------------------------------
(* search.py *)

\* a rebuild that keeps, for each note, the first version in the order of the names
\* rather than the one with the largest timestamp
rebuild_index_keeps_first(fls, ds) ==
    LET notes == get_all_notes(fls, ds)
        first(project, title) ==
            CHOOSE n \in notes :
                /\ n.project = project /\ n.title = title
                /\ \A m \in notes :
                       (m.project = project /\ m.title = title)
                           => (m.timestamp = n.timestamp \/ StrLT(n.timestamp, m.timestamp))
    IN  [project \in {n.project : n \in notes} |->
            [title \in {n.title : n \in {m \in notes : m.project = project}} |->
                [content   |-> fls[first(project, title).path],
                 timestamp |-> first(project, title).timestamp,
                 path      |-> first(project, title).path]]]

\* rebuild_index run without interleaving: the index built from get_all_notes.
\* Two files of one directory never parse to the same (title, timestamp), so the
\* maximum the loop keeps does not depend on the order of iteration.
rebuild_index(fls, ds) ==
    LET notes == get_all_notes(fls, ds)
        latest(project, title) ==
            CHOOSE n \in notes :
                /\ n.project = project /\ n.title = title
                /\ \A m \in notes :
                       (m.project = project /\ m.title = title)
                           => (m.timestamp = n.timestamp \/ StrLT(m.timestamp, n.timestamp))
    IN  [project \in {n.project : n \in notes} |->
            [title \in {n.title : n \in {m \in notes : m.project = project}} |->
                [content   |-> fls[latest(project, title).path],
                 timestamp |-> latest(project, title).timestamp,
                 path      |-> latest(project, title).path]]]

\* a count that is incremented for every file get_all_notes lists
rebuild_index_count_of_versions(fls, ds) == Cardinality(get_all_notes(fls, ds))

\* the count rebuild_index returns: incremented once for each key of latest_notes
rebuild_index_count(fls, ds) ==
    Cardinality({<<n.project, n.title>> : n \in get_all_notes(fls, ds)})

\* the (project, title) keys of an index
index_keys(idx) ==
    {k \in (DOMAIN idx) \X UNION {DOMAIN idx[p] : p \in DOMAIN idx} : k[2] \in DOMAIN idx[k[1]]}

\* the number rebuild_index returns: it counts the keys it fills in
index_count(idx) == Cardinality(index_keys(idx))

\* the orders in which the two nested dicts of an index can be iterated: every key
\* once, the titles of one project next to each other (the order in which the keys
\* were inserted, which is the order in which the file system listed the files)
Iterations(idx) ==
    {it \in [1..Cardinality(index_keys(idx)) -> index_keys(idx)] :
        /\ \A i, j \in DOMAIN it : i # j => it[i] # it[j]
        /\ \A i, j, k \in DOMAIN it :
              (i < j /\ j < k /\ it[i][1] = it[k][1]) => it[j][1] = it[i][1]}

\* str.lower() on the letters the model uses
LowerCase ==
    ("A" :> "a") @@ ("B" :> "b") @@ ("C" :> "c") @@ ("N" :> "n") @@ ("P" :> "p")
        @@ ("Q" :> "q") @@ ("S" :> "s") @@ ("T" :> "t") @@ ("X" :> "x")

\* the letter U+00DF, which str.lower() leaves as it is
Eszett == "sz"

\* str.lower()
lower(s) == [i \in 1..Len(s) |-> IF s[i] \in DOMAIN LowerCase THEN LowerCase[s[i]] ELSE s[i]]

\* a score is a fraction <<numerator, denominator>> in lowest terms
RECURSIVE GCD(_, _)
GCD(a, b) == IF b = 0 THEN a ELSE GCD(b, a % b)

Fraction(n, d) == IF n = 0 THEN <<0, 1>> ELSE <<n \div GCD(n, d), d \div GCD(n, d)>>

ScoreGE(a, b) == a[1] * b[2] >= b[1] * a[2]

MaxScore(S) == IF S = {} THEN <<0, 1>> ELSE CHOOSE a \in S : \A b \in S : ScoreGE(a, b)

\* the length of a longest common subsequence
RECURSIVE LCS(_, _)
LCS(a, b) ==
    IF a = <<>> \/ b = <<>> THEN 0
    ELSE IF Head(a) = Head(b) THEN 1 + LCS(Tail(a), Tail(b))
    ELSE LET x == LCS(Tail(a), b)
             y == LCS(a, Tail(b))
         IN  IF x >= y THEN x ELSE y

\* rapidfuzz fuzz.ratio: 100 * (1 - indel distance / (len1 + len2)), and the indel
\* distance is len1 + len2 - 2 * LCS
ratio(s1, s2) ==
    IF Len(s1) + Len(s2) = 0 THEN <<100, 1>>
    ELSE Fraction(200 * LCS(s1, s2), Len(s1) + Len(s2))

\* rapidfuzz's partial ratio of a shorter s1 in a longer s2: the best ratio of s1
\* and a window of s2: a prefix shorter than s1, a substring as long as s1, or a
\* suffix not longer than s1; a window whose outer character is not in s1 is skipped
partial_ratio_impl(s1, s2) ==
    LET len1 == Len(s1)
        len2 == Len(s2)
        s1_char_set == {s1[i] : i \in 1..len1}
        prefixes == {SubSeq(s2, 1, i) : i \in {j \in 1..(len1 - 1) : s2[j] \in s1_char_set}}
        inner    == {SubSeq(s2, i + 1, i + len1) :
                        i \in {j \in 0..(len2 - len1 - 1) : s2[j + len1] \in s1_char_set}}
        suffixes == {SubSeq(s2, i + 1, len2) :
                        i \in {j \in (len2 - len1)..(len2 - 1) : s2[j + 1] \in s1_char_set}}
    IN  MaxScore({ratio(s1, w) : w \in prefixes \cup inner \cup suffixes})

\* rapidfuzz fuzz.partial_ratio
partial_ratio(s1, s2) ==
    IF Len(s1) = 0 \/ Len(s2) = 0
    THEN (IF Len(s1) = Len(s2) THEN <<100, 1>> ELSE <<0, 1>>)
    ELSE LET shorter == IF Len(s1) <= Len(s2) THEN s1 ELSE s2
             longer  == IF Len(s1) <= Len(s2) THEN s2 ELSE s1
             res     == partial_ratio_impl(shorter, longer)
         IN  IF res # <<100, 1>> /\ Len(s1) = Len(s2)
             THEN MaxScore({res, partial_ratio_impl(longer, shorter)})
             ELSE res

\* str.find: the 0-based position of the first occurrence of sub in s, or -1
find(s, sub) ==
    LET at == {i \in 0..(Len(s) - Len(sub)) : SubSeq(s, i + 1, i + Len(sub)) = sub}
    IN  IF at = {} THEN -1 ELSE CHOOSE i \in at : \A j \in at : i <= j

context_chars == 150

Ellipsis == <<".", ".", ".">>

Min2(a, b) == IF a <= b THEN a ELSE b

Max2(a, b) == IF a >= b THEN a ELSE b

\* an excerpt made around the first occurrence of the query as it is written
generate_excerpt_case_sensitive(content, query) ==
    LET pos   == find(content, query)
        start == Max2(0, pos - context_chars)
        end   == Min2(Len(content), pos + Len(query) + context_chars)
    IN  IF pos = -1
        THEN SubSeq(content, 1, Min2(Len(content), context_chars * 2))
             \o (IF Len(content) > context_chars * 2 THEN Ellipsis ELSE <<>>)
        ELSE (IF start > 0 THEN Ellipsis ELSE <<>>)
             \o SubSeq(content, start + 1, end)
             \o (IF end < Len(content) THEN Ellipsis ELSE <<>>)

\* NotesSearcher._generate_excerpt
generate_excerpt(content, query) ==
    LET pos   == find(lower(content), lower(query))
        start == Max2(0, pos - context_chars)
        end   == Min2(Len(content), pos + Len(query) + context_chars)
    IN  IF pos = -1
        THEN SubSeq(content, 1, Min2(Len(content), context_chars * 2))
             \o (IF Len(content) > context_chars * 2 THEN Ellipsis ELSE <<>>)
        ELSE (IF start > 0 THEN Ellipsis ELSE <<>>)
             \o SubSeq(content, start + 1, end)
             \o (IF end < Len(content) THEN Ellipsis ELSE <<>>)

\* project=None (an empty project is treated the same: "if project")
NoProject == <<>>

DefaultThreshold == 60

\* a score for which the query is compared as it is written
best_score_query_as_written(query, title, content) ==
    MaxScore({partial_ratio(query, lower(title)),
              partial_ratio(query, lower(content))})

\* the score search gives a note: the better of the query's partial ratio with the
\* title and with the content
best_score(query, title, content) ==
    MaxScore({partial_ratio(lower(query), lower(title)),
              partial_ratio(lower(query), lower(content))})

\* results.sort(key=lambda x: x.score, reverse=True): stable, so results of equal
\* score stay in the order they had
RECURSIVE sort_by_score(_)
sort_by_score(results) ==
    IF results = <<>> THEN <<>>
    ELSE LET sorted_front == sort_by_score(SubSeq(results, 1, Len(results) - 1))
             x    == results[Len(results)]
             keep == {i \in 1..Len(sorted_front) : ScoreGE(sorted_front[i].score, x.score)}
             k    == Cardinality(keep)
         IN  SubSeq(sorted_front, 1, k) \o <<x>> \o SubSeq(sorted_front, k + 1, Len(sorted_front))

\* a search that takes only the notes that score more than the threshold
search_above_threshold(idx, it, query, project, threshold) ==
    LET projects_to_search == IF project # NoProject THEN {project} ELSE DOMAIN idx
        in_scope == SelectSeq(it, LAMBDA k : k[1] \in projects_to_search)
        hits     == SelectSeq(in_scope,
                        LAMBDA k : ~ScoreGE(<<threshold, 1>>,
                                            best_score(query, k[2], idx[k[1]][k[2]].content)))
    IN  sort_by_score([i \in 1..Len(hits) |->
            [project |-> hits[i][1],
             title   |-> hits[i][2],
             content |-> idx[hits[i][1]][hits[i][2]].content,
             score   |-> best_score(query, hits[i][2], idx[hits[i][1]][hits[i][2]].content),
             excerpt |-> generate_excerpt(idx[hits[i][1]][hits[i][2]].content, query)]])

\* NotesSearcher.search on the index idx, iterated in the order it
search(idx, it, query, project, threshold) ==
    LET projects_to_search == IF project # NoProject THEN {project} ELSE DOMAIN idx
        in_scope == SelectSeq(it, LAMBDA k : k[1] \in projects_to_search)
        hits     == SelectSeq(in_scope,
                        LAMBDA k : ScoreGE(best_score(query, k[2], idx[k[1]][k[2]].content),
                                           <<threshold, 1>>))
    IN  sort_by_score([i \in 1..Len(hits) |->
            [project |-> hits[i][1],
             title   |-> hits[i][2],
             content |-> idx[hits[i][1]][hits[i][2]].content,
             score   |-> best_score(query, hits[i][2], idx[hits[i][1]][hits[i][2]].content),
             excerpt |-> generate_excerpt(idx[hits[i][1]][hits[i][2]].content, query)]])

---------------------------------------------------------------------------
(* vector_store.py *)

\* A VectorStore: whether self.client and self.collection are objects (not None),
\* and what the backend holds in the collection: id -> document and metadata.

\* the backend at construction
Backends == {"available", "not installed", "fails to initialize"}

NoEntries == [id \in {} |-> [document |-> <<>>, metadata |-> <<>>]]

\* VectorStore.__init__ on an empty persistence path
VectorStore_init(backend) ==
    [client     |-> backend = "available",
     collection |-> backend = "available",
     entries    |-> NoEntries]

\* note_id = f"{project}/{title}"
note_id(project, title) == project \o <<"/">> \o title

\* collection.upsert of one document
upsert(entries, id, document, metadata) ==
    (id :> [document |-> document, metadata |-> metadata]) @@ entries

\* collection.delete of one id
collection_delete(entries, id) == [k \in (DOMAIN entries) \ {id} |-> entries[k]]

\* an add_note without the test of self.collection
VectorStore_add_note_unguarded(v, project, title, content) ==
    [v EXCEPT !.entries = upsert(@, note_id(project, title), content,
                                 [project |-> project, title |-> title])]

\* VectorStore.add_note
VectorStore_add_note(v, project, title, content) ==
    IF ~v.collection THEN v
    ELSE [v EXCEPT !.entries = upsert(@, note_id(project, title), content,
                                      [project |-> project, title |-> title])]

\* a delete_note without the try around collection.delete
VectorStore_delete_note_unguarded(v, project, title, backend_raises) ==
    IF ~v.collection THEN [store |-> v, raised |-> FALSE]
    ELSE IF backend_raises /\ note_id(project, title) \notin DOMAIN v.entries
         THEN [store |-> v, raised |-> TRUE]
         ELSE [store  |-> [v EXCEPT !.entries = collection_delete(@, note_id(project, title))],
               raised |-> FALSE]

\* VectorStore.delete_note: the store it leaves and whether it raises.  The backend
\* may raise for an id it does not hold (backend_raises); the except clause logs it.
VectorStore_delete_note(v, project, title, backend_raises) ==
    IF ~v.collection THEN [store |-> v, raised |-> FALSE]
    ELSE IF backend_raises /\ note_id(project, title) \notin DOMAIN v.entries
         THEN [store |-> v, raised |-> FALSE]
         ELSE [store  |-> [v EXCEPT !.entries = collection_delete(@, note_id(project, title))],
               raised |-> FALSE]

\* limit: int = 5
DefaultLimit == 5

\* the ids the where filter of search lets pass
passing(v, project) ==
    {id \in DOMAIN v.entries :
        project = NoProject \/ v.entries[id].metadata.project = project}

\* the orders in which the backend can rank the ids of S by distance to a query
Rankings(S) ==
    {r \in [1..Cardinality(S) -> S] : \A i, j \in 1..Cardinality(S) : i # j => r[i] # r[j]}

\* VectorStore.search: the formatted results, the limit nearest documents that pass
\* the filter, in the backend's ranking of them
VectorStore_search(v, query, project, limit, ranking) ==
    IF ~v.collection THEN <<>>
    ELSE [i \in 1..Min2(limit, Len(ranking)) |->
             [id       |-> ranking[i],
              content  |-> v.entries[ranking[i]].document,
              metadata |-> v.entries[ranking[i]].metadata]]

\* VectorStore.clear_all
VectorStore_clear_all(v) ==
    IF ~v.client THEN v
    ELSE [v EXCEPT !.collection = TRUE, !.entries = NoEntries]

---------------------------------------------------------------------------
(* Input sets of the operations *)

\* timestamps as retrieve_note and list_notes show them
Shown(n) == Replace(Replace(isoformat(n), ":", "-"), "-", ":")

\* version arguments: none, every timestamp the clock can give, and the date alone,
\* which is a part of every timestamp
Versions == {NoVersion} \cup {Shown(n) : n \in 0..MaxClock} \cup {<<"2", ":", "1">>}

NoObs == [set |-> FALSE]

NoTasks == <<>>

NoSeen == [set |-> FALSE]

NoCall == [op |-> "none"]

Call(op, project, title, version, content, result) ==
    [op |-> op, project |-> project, title |-> title, version |-> version,
     content |-> content, result |-> result]

---------------------------------------------------------------------------
(* Operations *)

Init ==
    /\ dirs = {}
    /\ files = [q \in {} |-> ""]
    /\ clock = 0
    /\ web_index = rebuild_index([q \in {} |-> ""], {})
    /\ last = Call("init", <<>>, <<>>, NoVersion, "", [ok |-> TRUE])
    /\ obs = NoObs
    /\ nstores = 0
    /\ index = rebuild_index([q \in {} |-> ""], {})
    /\ vector = VectorStore_init("not installed")
    /\ tasks = NoTasks
    /\ seen = NoSeen
    /\ call = NoCall

\* time passes
Tick ==
    /\ clock < MaxClock
    /\ clock' = clock + 1
    /\ UNCHANGED <<dirs, files, web_index, last, obs, nstores, server_vars>>

\* NotesStorage.store_note
store_note(project, title, content) ==
    LET filepath == <<project_dir_of(project), generate_filename(title, clock)>>
    IN  /\ nstores < MaxStores
        /\ dirs' = mkdir(dirs, project)
        /\ files' = (filepath :> content) @@ files
        /\ last' = Call("store_note", project, title, NoVersion, content,
                        [ok |-> TRUE, path |-> filepath])
        /\ nstores' = nstores + 1
        /\ UNCHANGED <<clock, web_index, obs, server_vars>>

\* NotesStorage.retrieve_note; a result without a version may be remembered in obs
retrieve_note(project, title, version) ==
    LET result == retrieve_result(files, project, title, version)
    IN  /\ dirs' = mkdir(dirs, project)
        /\ \/ obs' = obs
           \/ /\ version = NoVersion /\ result.ok /\ ~obs.set
              /\ obs' = [set |-> TRUE, project |-> project, title |-> title,
                         content |-> result.content, timestamp |-> result.timestamp,
                         path |-> <<project_dir_of(project),
                                    retrieve_target(files, project, title, version)>>]
        /\ UNCHANGED <<files, clock, web_index, last, nstores, server_vars>>

\* NotesStorage.list_projects
list_projects ==
    /\ UNCHANGED vars

\* NotesStorage.list_notes
list_notes(project) ==
    /\ dirs' = mkdir(dirs, project)
    /\ UNCHANGED <<files, clock, web_index, last, obs, nstores, server_vars>>

\* NotesStorage.get_all_notes
get_all_notes_call ==
    /\ UNCHANGED vars

\* NotesStorage.delete_note
delete_note(project, title, version) ==
    LET result == delete_note_result(files, project, title, version)
        gone   == IF result.ok THEN result.files ELSE {}
    IN  /\ files' = unlink(files, gone)
        /\ last' = IF result.ok
                   THEN Call("delete_note", project, title, version, "", result)
                   ELSE last
        /\ obs' = IF obs.set /\ obs.path \in gone THEN NoObs ELSE obs
        /\ UNCHANGED <<dirs, clock, web_index, nstores, server_vars>>

\* web_server.delete_note: every file of the project's directory that matches
\* "<title>_*.md" is unlinked and, if there was one, the index is rebuilt
web_delete_note(project_name, title) ==
    LET project_path == project_dir_of(project_name)
        gone == {<<project_path, n>> : n \in glob(files, project_path, title \o <<"_">>)}
    IN  /\ dirs' = mkdir(dirs, project_name)
        /\ files' = unlink(files, gone)
        /\ web_index' = IF gone # {} THEN rebuild_index(files', dirs') ELSE web_index
        /\ last' = IF gone # {}
                   THEN Call("web_delete_note", project_name, title, NoVersion, "",
                             [ok |-> TRUE, deleted |-> Cardinality(gone)])
                   ELSE last
        /\ obs' = IF obs.set /\ obs.path \in gone THEN NoObs ELSE obs
        /\ UNCHANGED <<clock, nstores, server_vars>>

Next ==
    \/ Tick
    \/ \E project \in Projects, title \in Titles, content \in Contents :
            store_note(project, title, content)
    \/ \E project \in Projects, title \in Titles, version \in Versions :
            retrieve_note(project, title, version)
    \/ list_projects
    \/ \E project \in Projects : list_notes(project)
    \/ get_all_notes_call
    \/ \E project \in Projects, title \in Titles, version \in Versions :
            delete_note(project, title, version)
    \/ \E project \in Projects, title \in Titles : web_delete_note(project, title)

Spec == Init /\ [][Next]_vars

---------------------------------------------------------------------------
(* server.py: the tool calls, run one at a time *)

\* "P_Q" is kept by the sanitizer and shown as "P Q"
ServerProjects == {<<"P">>, <<"P", "_", "Q">>}

Texts == {<<"a">>, <<"b">>}

Queries == {<<"a">>, <<"b">>, <<"n">>}

\* the (project, title) pairs rebuild_vector_index visits, in its order: the projects
\* list_projects returns and, for each, the notes list_notes returns
RECURSIVE catalog_pairs(_, _)
catalog_pairs(fls, projects) ==
    IF projects = <<>> THEN <<>>
    ELSE LET notes == list_notes_result(fls, Head(projects))
         IN  [i \in 1..Len(notes) |-> <<Head(projects), notes[i].title>>]
             \o catalog_pairs(fls, Tail(projects))

\* the loop of rebuild_vector_index over pairs: each note's latest content is
\* retrieved and added; a retrieve that raises ends the loop with an error
RECURSIVE readd_notes(_, _, _, _)
readd_notes(v, fls, pairs, count) ==
    IF pairs = <<>> THEN [ok |-> TRUE, store |-> v, count |-> count]
    ELSE LET project == Head(pairs)[1]
             title   == Head(pairs)[2]
             r       == retrieve_result(fls, project, title, NoVersion)
         IN  IF ~r.ok THEN [ok |-> FALSE, store |-> v, count |-> count]
             ELSE readd_notes(VectorStore_add_note(v, project, title, r.content),
                              fls, Tail(pairs), count + 1)

\* the directories after list_notes was called for each of projects
RECURSIVE mkdir_all(_, _)
mkdir_all(ds, projects) ==
    IF projects = <<>> THEN ds ELSE mkdir_all(mkdir(ds, Head(projects)), Tail(projects))

\* results[:10]
ShownResults == 10

\* what search_notes has to show for a list of results: the first ten
search_notes_result(results) == SubSeq(results, 1, Min2(ShownResults, Len(results)))

ServerInit ==
    /\ dirs = {}
    /\ files = [q \in {} |-> <<>>]
    /\ clock = 0
    /\ web_index = rebuild_index([q \in {} |-> <<>>], {})
    /\ last = [op |-> "init"]
    /\ obs = NoObs
    /\ nstores = 0
    /\ index = rebuild_index([q \in {} |-> <<>>], {})
    /\ vector \in {VectorStore_init(backend) : backend \in Backends}
    /\ tasks = NoTasks
    /\ seen = NoSeen
    /\ call = NoCall

\* time passes between two tool calls
ServerTick ==
    /\ clock < MaxClock
    /\ clock' = clock + 1
    /\ UNCHANGED <<dirs, files, web_index, last, obs, nstores, server_vars>>

\* the tool store_note: storage.store_note, searcher.rebuild_index, vector_store.add_note
server_store_note(project, title, content) ==
    LET filepath == <<project_dir_of(project), generate_filename(title, clock)>>
    IN  /\ nstores < MaxStores
        /\ dirs' = mkdir(dirs, project)
        /\ files' = (filepath :> content) @@ files
        /\ index' = rebuild_index(files', dirs')
        /\ vector' = VectorStore_add_note(vector, project, title, content)
        /\ last' = [op |-> "store_note"]
        /\ nstores' = nstores + 1
        /\ UNCHANGED <<clock, web_index, obs, tasks, seen, call>>

\* the tool delete_note: storage.delete_note and, unless it raises, searcher.rebuild_index
\* and, when no version was given, vector_store.delete_note
server_delete_note(project, title, version) ==
    LET result == delete_note_result(files, project, title, version)
    IN  \/ /\ ~result.ok
           /\ UNCHANGED vars
        \/ /\ result.ok
           /\ files' = unlink(files, result.files)
           /\ index' = rebuild_index(files', dirs)
           /\ \E backend_raises \in BOOLEAN :
                  vector' = IF version = NoVersion
                            THEN VectorStore_delete_note(vector, project, title,
                                                         backend_raises).store
                            ELSE vector
           /\ last' = [op |-> "delete_note"]
           /\ UNCHANGED <<dirs, clock, web_index, obs, nstores, tasks, seen, call>>

\* the tool rebuild_index
server_rebuild_index ==
    /\ index' = rebuild_index(files, dirs)
    /\ last' = [op |-> "rebuild_index", count |-> rebuild_index_count(files, dirs)]
    /\ UNCHANGED <<dirs, files, clock, web_index, obs, nstores, vector, tasks, seen, call>>

\* the tool rebuild_vector_index: vector_store.clear_all, then every note the catalog
\* lists is retrieved and added
server_rebuild_vector_index ==
    LET projects == list_projects_result(dirs)
        result   == readd_notes(VectorStore_clear_all(vector), files,
                                catalog_pairs(files, projects), 0)
    IN  /\ dirs' = mkdir_all(dirs, projects)
        /\ vector' = result.store
        /\ last' = [op |-> "rebuild_vector_index", ok |-> result.ok, count |-> result.count]
        /\ UNCHANGED <<files, clock, web_index, obs, nstores, index, tasks, seen, call>>

\* the tool search_notes: an empty index is rebuilt first
server_search_notes(query, project) ==
    /\ index' = IF DOMAIN index = {} THEN rebuild_index(files, dirs) ELSE index
    /\ UNCHANGED <<dirs, files, clock, web_index, last, obs, nstores, vector, tasks, seen, call>>

ServerNext ==
    \/ ServerTick
    \/ \E project \in ServerProjects, title \in Titles, content \in Texts :
            server_store_note(project, title, content)
    \/ \E project \in ServerProjects, title \in Titles, version \in Versions :
            server_delete_note(project, title, version)
    \/ server_rebuild_index
    \/ server_rebuild_vector_index
    \/ \E query \in Queries, project \in ServerProjects \cup {NoProject} :
            server_search_notes(query, project)

ServerSpec == ServerInit /\ [][ServerNext]_vars

\* store_note and delete_note only, called one at a time
StoreDeleteNext ==
    \/ ServerTick
    \/ \E project \in ServerProjects, title \in Titles, content \in Texts :
            server_store_note(project, title, content)
    \/ \E project \in ServerProjects, title \in Titles, version \in Versions :
            server_delete_note(project, title, version)

StoreDeleteSpec == ServerInit /\ [][StoreDeleteNext]_vars

---------------------------------------------------------------------------
(* server.py: tool calls that interleave at their awaits *)

\* A tool call in flight is a record of tasks: what it is (op) with its arguments,
\* where it will resume (pc), and the locals of the rebuild_index it runs:
\*   pc = "write"    store_note: the file is open and empty, the content not written
\*   pc = "rebuild"  store_note, delete_note: the storage call has returned,
\*                   rebuild_index is not yet called
\*   pc = "read"     rebuild_index awaits the content of one of the notes of pending
\*   pc = "vector"   store_note, delete_note: the call of vector_store runs in its thread
\* alone records that no other call was in flight since this one started, before
\* the index as it was when a rebuild_index tool call that is alone started.  In
\* AsyncSpec last is the store_note or delete_note call that has just returned
\* after running alone.

AsyncProjects == {<<"P">>}

MaxTasks == 2        \* tool calls in flight at a time
MaxAsyncStores == 2  \* store_note calls per behaviour of AsyncSpec

EmptyIndex == rebuild_index([q \in {} |-> <<>>], {})

\* self.index[project][title] = entry
index_put(idx, project, title, entry) ==
    LET titles == IF project \in DOMAIN idx THEN idx[project] ELSE [t \in {} |-> entry]
    IN  (project :> ((title :> entry) @@ titles)) @@ idx

\* a choice that keeps, for each (project, title), the note with the smallest
\* timestamp
latest_notes_keeps_oldest(fls, ds) ==
    LET notes == get_all_notes(fls, ds)
    IN  {n \in notes :
            \A m \in notes :
                (m.project = n.project /\ m.title = n.title)
                    => (m.timestamp = n.timestamp \/ StrLT(n.timestamp, m.timestamp))}

\* latest_notes of rebuild_index: of the notes get_all_notes lists, the one with the
\* largest timestamp for each (project, title)
latest_notes(fls, ds) ==
    LET notes == get_all_notes(fls, ds)
    IN  {n \in notes :
            \A m \in notes :
                (m.project = n.project /\ m.title = n.title)
                    => (m.timestamp = n.timestamp \/ StrLT(m.timestamp, n.timestamp))}

Task(op, project, title, version, content, path, pc, pending, before, alone) ==
    [op |-> op, project |-> project, title |-> title, version |-> version,
     content |-> content, path |-> path, pc |-> pc, pending |-> pending,
     before |-> before, alone |-> alone]

\* tasks without its i-th element
without(ts, i) == SubSeq(ts, 1, i - 1) \o SubSeq(ts, i + 1, Len(ts))

\* the tasks in flight once another call has started beside them
joined(ts) == [i \in 1..Len(ts) |-> [ts[i] EXCEPT !.alone = FALSE, !.before = EmptyIndex]]

NoReturn == [op |-> "none"]

\* what last records when the call of task t returns
returned(t) ==
    IF t.op \in {"store_note", "delete_note"} /\ t.alone
    THEN [op |-> t.op, project |-> t.project, title |-> t.title,
          version |-> t.version, content |-> t.content]
    ELSE NoReturn

\* store_note and a delete_note without a version go on to vector_store when their
\* rebuild_index has returned; the other calls return
to_vector(t) ==
    t.op = "store_note" \/ (t.op = "delete_note" /\ t.version = NoVersion)

\* what remains of task i when its rebuild_index has returned
after_rebuild(ts, i) ==
    IF to_vector(ts[i]) THEN [ts EXCEPT ![i].pc = "vector", ![i].pending = {}]
    ELSE without(ts, i)

\* the search a search_notes call makes when it saw an empty index and its own
\* rebuild_index has returned, or sees a filled index: remembered when it is made
\* while one rebuild_index tool call, running beside nothing else, is in flight
remember(idx, ts) ==
    IF Len(ts) = 1 /\ ts[1].op = "rebuild_index" /\ ts[1].alone
    THEN [set |-> TRUE,
          index |-> IF idx = rebuild_index(files, dirs) THEN "the rebuilt one"
                    ELSE IF idx = ts[1].before THEN "the one before"
                    ELSE IF idx = EmptyIndex THEN "empty"
                    ELSE "partly filled"]
    ELSE seen

AsyncInit ==
    /\ dirs = {}
    /\ files = [q \in {} |-> <<>>]
    /\ clock = 0
    /\ web_index = EmptyIndex
    /\ last = NoReturn
    /\ obs = NoObs
    /\ nstores = 0
    /\ index = EmptyIndex
    /\ vector = VectorStore_init("available")
    /\ tasks = NoTasks
    /\ seen = NoSeen
    /\ call = NoCall

AsyncTick ==
    /\ clock < MaxClock
    /\ clock' = clock + 1
    /\ UNCHANGED <<dirs, files, web_index, last, obs, nstores, server_vars>>

\* store_note is called and runs up to the await of aiofiles.open(filepath, "w"),
\* which creates the file, or truncates it, in a worker thread
async_store_open(project, title, content) ==
    LET filepath == <<project_dir_of(project), generate_filename(title, clock)>>
    IN  /\ Len(tasks) < MaxTasks
        /\ nstores < MaxAsyncStores
        /\ dirs' = mkdir(dirs, project)
        /\ files' = (filepath :> <<>>) @@ files
        /\ tasks' = Append(joined(tasks),
                           Task("store_note", project, title, NoVersion, content, filepath,
                                "write", {}, EmptyIndex, tasks = NoTasks))
        /\ nstores' = nstores + 1
        /\ last' = NoReturn
        /\ UNCHANGED <<clock, web_index, obs, index, vector, seen, call>>

\* await f.write(content) and the close of the file
async_store_write(i) ==
    /\ tasks[i].pc = "write"
    /\ files' = (tasks[i].path :> tasks[i].content) @@ files
    /\ tasks' = [tasks EXCEPT ![i].pc = "rebuild"]
    /\ UNCHANGED <<dirs, clock, web_index, last, obs, nstores, index, vector, seen, call>>

\* delete_note is called: storage.delete_note removes the files, or raises, which
\* ends the call
async_delete_note(project, title, version) ==
    LET result == delete_note_result(files, project, title, version)
    IN  /\ Len(tasks) < MaxTasks
        /\ last' = NoReturn
        /\ IF result.ok
           THEN /\ files' = unlink(files, result.files)
                /\ tasks' = Append(joined(tasks),
                                   Task("delete_note", project, title, version, <<>>, <<>>,
                                        "rebuild", {}, EmptyIndex, tasks = NoTasks))
           ELSE UNCHANGED <<files, tasks>>
        /\ UNCHANGED <<dirs, clock, web_index, obs, nstores, index, vector, seen, call>>

\* searcher.rebuild_index from its call to its first await, for the task i of a
\* store_note or a delete_note whose storage call has returned
async_rebuild_begin(i) ==
    /\ tasks[i].pc = "rebuild"
    /\ index' = EmptyIndex
    /\ IF latest_notes(files, dirs) = {}
       THEN /\ tasks' = after_rebuild(tasks, i)
            /\ last' = IF to_vector(tasks[i]) THEN last ELSE returned(tasks[i])
       ELSE /\ tasks' = [tasks EXCEPT ![i].pc = "read",
                                      ![i].pending = latest_notes(files, dirs)]
            /\ last' = last
    /\ UNCHANGED <<dirs, files, clock, web_index, obs, nstores, vector, seen, call>>

\* one await of read_note_content returns and the entry of its note is assigned; a
\* file that is gone raises, which ends the tool call
async_rebuild_read(i, note) ==
    /\ tasks[i].pc = "read"
    /\ note \in tasks[i].pending
    /\ IF note.path \notin DOMAIN files
       THEN /\ tasks' = without(tasks, i)
            /\ UNCHANGED <<index, seen, last>>
       ELSE /\ index' = index_put(index, note.project, note.title,
                                  [content   |-> files[note.path],
                                   timestamp |-> note.timestamp,
                                   path      |-> note.path])
            /\ IF tasks[i].pending = {note}
               THEN /\ tasks' = after_rebuild(tasks, i)
                    /\ seen' = IF tasks[i].op = "search_notes"
                               THEN remember(index', without(tasks, i))
                               ELSE seen
                    /\ last' = IF to_vector(tasks[i]) THEN last ELSE returned(tasks[i])
               ELSE /\ tasks' = [tasks EXCEPT ![i].pending = @ \ {note}]
                    /\ UNCHANGED <<seen, last>>
    /\ UNCHANGED <<dirs, files, clock, web_index, obs, nstores, vector, call>>

\* the call of vector_store has run in its thread, add_note for store_note and
\* delete_note for delete_note, and the tool call returns
async_vector_update(i) ==
    /\ tasks[i].pc = "vector"
    /\ \E backend_raises \in BOOLEAN :
          vector' = IF tasks[i].op = "store_note"
                    THEN VectorStore_add_note(vector, tasks[i].project, tasks[i].title,
                                              tasks[i].content)
                    ELSE VectorStore_delete_note(vector, tasks[i].project, tasks[i].title,
                                                 backend_raises).store
    /\ tasks' = without(tasks, i)
    /\ last' = returned(tasks[i])
    /\ UNCHANGED <<dirs, files, clock, web_index, obs, nstores, index, seen, call>>

\* the tool rebuild_index is called and runs to its first await, or to its end
\* when there is no note
async_rebuild_index ==
    /\ Len(tasks) < MaxTasks
    /\ index' = EmptyIndex
    /\ tasks' = IF latest_notes(files, dirs) = {} THEN joined(tasks)
                ELSE Append(joined(tasks),
                            Task("rebuild_index", <<>>, <<>>, NoVersion, <<>>, <<>>, "read",
                                 latest_notes(files, dirs),
                                 IF tasks = NoTasks THEN index ELSE EmptyIndex,
                                 tasks = NoTasks))
    /\ last' = NoReturn
    /\ UNCHANGED <<dirs, files, clock, web_index, obs, nstores, vector, seen, call>>

\* the tool search_notes is called: on an empty index it calls rebuild_index first,
\* on any other it searches at once
async_search_notes(query, project) ==
    IF DOMAIN index = {} /\ latest_notes(files, dirs) # {}
    THEN /\ Len(tasks) < MaxTasks
         /\ index' = EmptyIndex
         /\ tasks' = Append(joined(tasks),
                            Task("search_notes", <<>>, <<>>, NoVersion, <<>>, <<>>, "read",
                                 latest_notes(files, dirs), EmptyIndex, FALSE))
         /\ last' = NoReturn
         /\ UNCHANGED <<dirs, files, clock, web_index, obs, nstores, vector, seen, call>>
    ELSE /\ seen' = remember(index, tasks)
         /\ UNCHANGED <<dirs, files, clock, web_index, last, obs, nstores, index, vector,
                        tasks, call>>

AsyncNext ==
    \/ AsyncTick
    \/ \E project \in AsyncProjects, title \in Titles, content \in Texts :
            async_store_open(project, title, content)
    \/ \E i \in 1..Len(tasks) : async_store_write(i)
    \/ \E project \in AsyncProjects, title \in Titles, version \in Versions :
            async_delete_note(project, title, version)
    \/ \E i \in 1..Len(tasks) : async_rebuild_begin(i)
    \/ \E i \in 1..Len(tasks) : \E note \in tasks[i].pending : async_rebuild_read(i, note)
    \/ \E i \in 1..Len(tasks) : async_vector_update(i)
    \/ async_rebuild_index
    \/ \E query \in Queries, project \in AsyncProjects \cup {NoProject} :
            async_search_notes(query, project)

AsyncSpec == AsyncInit /\ [][AsyncNext]_vars

---------------------------------------------------------------------------
(* Notions the properties use *)

\* the timestamp part of a version's file name
stamp_of(path) == SplitLast(Stem(path[2]))

\* the ticks at which a still existing version of note (project, title) was stored
ticks_of(fls, project, title) ==
    {n \in 0..MaxClock :
        <<project_dir_of(project), generate_filename(title, n)>> \in DOMAIN fls}

Max(S) == CHOOSE n \in S : \A m \in S : m <= n

\* the most recently stored version of note (project, title) that still exists
latest_stored(fls, project, title) ==
    <<project_dir_of(project), generate_filename(title, Max(ticks_of(fls, project, title)))>>

\* retrieve_note returns exactly this content with this (sanitized) timestamp
Returns(result, content, stamp) ==
    /\ result.ok
    /\ result.content = content
    /\ Replace(result.timestamp, ":", "-") = stamp

\* a step of an operation that only reads
ReadStep ==
    \/ \E project \in Projects, title \in Titles, version \in Versions :
            retrieve_note(project, title, version)
    \/ \E project \in Projects : list_notes(project)
    \/ list_projects
    \/ get_all_notes_call

---------------------------------------------------------------------------
(* Properties *)

\* C1: in every state reached by store_note(project, title, content), retrieve_note
\* (project, title) without a version returns that content and a timestamp not
\* earlier than the time of the store call.
C1_RoundTrip ==
    last.op = "store_note" =>
        LET r == retrieve_result(files, last.project, last.title, NoVersion)
        IN  /\ r.ok
            /\ r.content = last.content
            /\ ~StrLT(Replace(r.timestamp, ":", "-"), stamp_of(last.result.path))

\* C2: every store_note adds exactly one version to its note and leaves every file
\* that existed before with the content it had, also within one clock tick.
C2_StoreAddsOneVersion ==
    [][\A project \in Projects, title \in Titles, content \in Contents :
          store_note(project, title, content) =>
              /\ Cardinality(versions_of(files', project, title))
                     = Cardinality(versions_of(files, project, title)) + 1
              /\ \A q \in DOMAIN files : q \in DOMAIN files' /\ files'[q] = files[q]]_vars

\* C3: after any stores and deletes, retrieve_note without a version returns the
\* content of the most recently stored version of the note that still exists.
C3_LatestWins ==
    \A project \in Projects, title \in Titles :
        ticks_of(files, project, title) # {} =>
            LET newest == latest_stored(files, project, title)
            IN  Returns(retrieve_result(files, project, title, NoVersion),
                        files[newest], stamp_of(newest))

\* C4: a timestamp that retrieve_note returned for a note, given back as version,
\* retrieves the same content and timestamp, whatever was stored in between, as
\* long as that version was not deleted.
C4_VersionStable ==
    obs.set =>
        LET r == retrieve_result(files, obs.project, obs.title, obs.timestamp)
        IN  r.ok /\ r.content = obs.content /\ r.timestamp = obs.timestamp

\* C5: retrieve_note with a version returns the version whose timestamp is exactly
\* that string and fails with NotFound for every other string, parts of a stored
\* timestamp included.
C5_ExactVersion ==
    \A project \in Projects, title \in Titles, version \in Versions \ {NoVersion} :
        LET exact == {u \in versions_of(files, project, title) :
                          stamp_of(u) = Replace(version, ":", "-")}
            r == retrieve_result(files, project, title, version)
        IN  IF exact = {} THEN r = NotFound
            ELSE \E u \in exact : Returns(r, files[u], stamp_of(u))

\* C6: retrieve_note without a version fails with NotFound whenever the note has no
\* stored version, whatever else the project holds.
C6_AbsentNoteNotFound ==
    \A project \in Projects, title \in Titles :
        versions_of(files, project, title) = {} =>
            retrieve_result(files, project, title, NoVersion) = NotFound

\* C7: deleting one version t of a note with N >= 2 versions reports 1, removes
\* exactly that file, leaves the other versions retrievable with their content,
\* the latest of them is what retrieve without a version returns, and retrieve
\* with version t fails with NotFound; a version no unit carries gives NotFound.
C7_DeleteOneVersion ==
    /\ [](\A project \in Projects, title \in Titles, version \in Versions \ {NoVersion} :
            (\A u \in versions_of(files, project, title) :
                   stamp_of(u) # Replace(version, ":", "-"))
                => delete_note_result(files, project, title, version) = NotFound)
    /\ [][\A project \in Projects, title \in Titles, version \in Versions \ {NoVersion} :
            (/\ delete_note(project, title, version)
             /\ Cardinality(versions_of(files, project, title)) >= 2) =>
                LET r    == delete_note_result(files, project, title, version)
                    rest == versions_of(files, project, title) \ r.files
                IN  /\ r.ok /\ r.deleted = 1
                    /\ DOMAIN files' = (DOMAIN files) \ r.files
                    /\ \A u \in rest :
                          /\ files'[u] = files[u]
                          /\ Returns(retrieve_result(files', project, title, stamp_of(u)),
                                     files[u], stamp_of(u))
                    /\ Returns(retrieve_result(files', project, title, NoVersion),
                               files[latest_stored(files', project, title)],
                               stamp_of(latest_stored(files', project, title)))
                    /\ retrieve_result(files', project, title, version) = NotFound]_vars

\* C8: deleting a note with N >= 1 versions without a version removes all N and
\* reports N; then retrieve fails with NotFound, list_notes does not show the note
\* and a second delete fails with NotFound; deleting a note that has no version
\* fails with NotFound.
C8_DeleteAllVersions ==
    /\ [](\A project \in Projects, title \in Titles :
            versions_of(files, project, title) = {}
                => delete_note_result(files, project, title, NoVersion) = NotFound)
    /\ [][\A project \in Projects, title \in Titles :
            delete_note(project, title, NoVersion) =>
                LET r == delete_note_result(files, project, title, NoVersion)
                IN  /\ r.ok
                    /\ r.deleted = Cardinality(versions_of(files, project, title))
                    /\ Cardinality(r.files) = r.deleted
                    /\ versions_of(files', project, title) = {}
                    /\ retrieve_result(files', project, title, NoVersion) = NotFound
                    /\ \A i \in 1..Len(list_notes_result(files', project)) :
                          list_notes_result(files', project)[i].title
                              # Replace(Sanitize(title), "_", " ")
                    /\ delete_note_result(files', project, title, NoVersion) = NotFound]_vars

\* C9: deleting all versions of one note, through the storage or through the web
\* server, leaves every version of every other note in place with its content,
\* retrievable and listed.
C9_DeleteLeavesOtherNotes ==
    [][\A project \in Projects, title \in Titles :
          (delete_note(project, title, NoVersion) \/ web_delete_note(project, title)) =>
              \A q \in (DOMAIN files) \ versions_of(files, project, title) :
                  /\ q \in DOMAIN files'
                  /\ files'[q] = files[q]
                  /\ \E n \in parsed_notes(files', q[1]) :
                        /\ n.path = q
                        /\ Returns(retrieve_result(files', Replace(q[1], "_", " "),
                                                    n.title, n.timestamp),
                                   files[q], stamp_of(q))
                        /\ \E i \in 1..Len(list_notes_result(files', Replace(q[1], "_", " "))) :
                              list_notes_result(files', Replace(q[1], "_", " "))[i].title
                                  = n.title]_vars

\* C10: retrieve_note, list_notes, list_projects and get_all_notes leave the set of
\* directories and the stored versions as they were, so list_projects returns
\* the same before and after.
C10_ReadsChangeNothing ==
    [][ReadStep =>
          /\ dirs' = dirs
          /\ files' = files
          /\ list_projects_result(dirs') = list_projects_result(dirs)]_vars

---------------------------------------------------------------------------
(* vector_store.py: the calls of one VectorStore *)

\* call is the last call made on the store: its arguments, the store before it
\* (before), whether it raised, and what a search returned.

\* __init__ with each of the backends
VectorInit ==
    /\ dirs = {}
    /\ files = [q \in {} |-> <<>>]
    /\ clock = 0
    /\ web_index = EmptyIndex
    /\ last = [op |-> "init"]
    /\ obs = NoObs
    /\ nstores = 0
    /\ index = EmptyIndex
    /\ tasks = NoTasks
    /\ seen = NoSeen
    /\ \E backend \in Backends :
          /\ vector = VectorStore_init(backend)
          /\ call = [op |-> "init", backend |-> backend, raised |-> FALSE]

vector_add_note(project, title, content) ==
    /\ vector' = VectorStore_add_note(vector, project, title, content)
    /\ call' = [op |-> "add_note", project |-> project, title |-> title,
                before |-> vector, raised |-> FALSE]
    /\ UNCHANGED <<dirs, files, clock, web_index, last, obs, nstores, index, tasks, seen>>

vector_delete_note(project, title, backend_raises) ==
    LET result == VectorStore_delete_note(vector, project, title, backend_raises)
    IN  /\ vector' = result.store
        /\ call' = [op |-> "delete_note", project |-> project, title |-> title,
                    before |-> vector, raised |-> result.raised,
                    backend_raises |-> backend_raises]
        /\ UNCHANGED <<dirs, files, clock, web_index, last, obs, nstores, index, tasks, seen>>

vector_search(query, project, ranking) ==
    /\ call' = [op |-> "search", project |-> project, before |-> vector, raised |-> FALSE,
                results |-> VectorStore_search(vector, query, project, DefaultLimit, ranking)]
    /\ UNCHANGED <<dirs, files, clock, web_index, last, obs, nstores, index, tasks, seen,
                   vector>>

vector_clear_all ==
    /\ vector' = VectorStore_clear_all(vector)
    /\ call' = [op |-> "clear_all", before |-> vector, raised |-> FALSE]
    /\ UNCHANGED <<dirs, files, clock, web_index, last, obs, nstores, index, tasks, seen>>

VectorNext ==
    \/ \E project \in Projects, title \in Titles, content \in Texts :
            vector_add_note(project, title, content)
    \/ \E project \in Projects, title \in Titles, backend_raises \in BOOLEAN :
            vector_delete_note(project, title, backend_raises)
    \/ \E query \in Queries, project \in Projects \cup {NoProject} :
            \E ranking \in Rankings(passing(vector, project)) :
                vector_search(query, project, ranking)
    \/ vector_clear_all

VectorSpec == VectorInit /\ [][VectorNext]_vars

---------------------------------------------------------------------------
(* search.py: NotesSearcher.search as a function of the index *)

\* call is the search to make (op = "input") or the search made with its results
\* (op = "search").  The inputs: with the query "aBc" the title "xxA" scores 50, the
\* content "aBc" 100, and "ss" and "x" score 0.

SearchTitles == {<<"x", "x", "A">>, <<"s", "s">>}

SearchContents == {<<"x">>, <<"a", "B", "c">>}

SearchQueries == {<<"a", "B", "c">>, <<"A">>, <<Eszett>>}

SearchThresholds == {50, 51, DefaultThreshold}

\* the index that holds the notes of notes, a function from (project, title) to content
index_of(notes) ==
    [project \in {k[1] : k \in DOMAIN notes} |->
        [title \in {k[2] : k \in {n \in DOMAIN notes : n[1] = project}} |->
            [content |-> notes[<<project, title>>], timestamp |-> <<>>, path |-> <<>>]]]

SearchIndexes ==
    {index_of(notes) : notes \in UNION {[keys -> SearchContents] :
                                          keys \in SUBSET (Projects \X SearchTitles)}}

SearchInit ==
    /\ dirs = {}
    /\ files = [q \in {} |-> <<>>]
    /\ clock = 0
    /\ web_index = EmptyIndex
    /\ last = [op |-> "init"]
    /\ obs = NoObs
    /\ nstores = 0
    /\ vector = VectorStore_init("not installed")
    /\ tasks = NoTasks
    /\ seen = NoSeen
    /\ index \in SearchIndexes
    /\ \E it \in Iterations(index), query \in SearchQueries,
          project \in Projects \cup {NoProject}, threshold \in SearchThresholds :
            call = [op |-> "input", it |-> it, query |-> query, project |-> project,
                    threshold |-> threshold, results |-> <<>>]

search_call ==
    /\ call.op = "input"
    /\ call' = [call EXCEPT !.op = "search",
                            !.results = search(index, call.it, call.query, call.project,
                                               call.threshold)]
    /\ UNCHANGED <<dirs, files, clock, web_index, last, obs, nstores, index, vector, tasks,
                   seen>>

SearchNext == search_call

SearchSpec == SearchInit /\ [][SearchNext]_vars

---------------------------------------------------------------------------
(* storage.py: store_note with names as callers write them *)

\* a project name and a title are any strings: the empty one, ones made of
\* characters the sanitizer drops, ones that keep a part
RawProjects == {<<"P">>, <<>>, <<"/">>}

RawTitles == {<<"N">>, <<" ">>, <<"N", ":">>}

NamesNext ==
    \/ Tick
    \/ \E project \in RawProjects, title \in RawTitles, content \in Contents :
            store_note(project, title, content)

NamesSpec == Init /\ [][NamesNext]_vars

---------------------------------------------------------------------------
(* storage.py: the sanitizing expression as a function of a name *)

\* call is the name to sanitize (op = "input") or the name with its sanitized form
\* (op = "sanitize")

\* a letter, the three other characters that are kept, and characters that are
\* dropped, path separators among them
NameCharacters == {"P", " ", "-", "_", "/", ":", "*"}

RawNames == UNION {[1..n -> NameCharacters] : n \in 0..MaxLen}

SanitizeInit ==
    /\ dirs = {}
    /\ files = [q \in {} |-> ""]
    /\ clock = 0
    /\ web_index = EmptyIndex
    /\ last = [op |-> "init"]
    /\ obs = NoObs
    /\ nstores = 0
    /\ index = EmptyIndex
    /\ vector = VectorStore_init("not installed")
    /\ tasks = NoTasks
    /\ seen = NoSeen
    /\ \E raw \in RawNames : call = [op |-> "input", raw |-> raw, result |-> <<>>]

sanitize_call ==
    /\ call.op = "input"
    /\ call' = [call EXCEPT !.op = "sanitize", !.result = Sanitize(call.raw)]
    /\ UNCHANGED <<dirs, files, clock, web_index, last, obs, nstores, index, vector, tasks,
                   seen>>

SanitizeNext == sanitize_call

SanitizeSpec == SanitizeInit /\ [][SanitizeNext]_vars

---------------------------------------------------------------------------
(* server.py: store_note and retrieve_note on a storage that can fail *)

\* call is the last tool call: the exception its storage call raised (failure),
\* whether the tool call raised, and the text it returned, a sequence of words.

\* where storage.store_note can raise: in mkdir, in aiofiles.open, which leaves the
\* directory, or in f.write, which leaves the file opened for writing, empty
StoreFailures == {"none", "mkdir", "open", "write"}

\* whether reading the file retrieve_note has found raises (an OSError that is not
\* a FileNotFoundError)
ReadFailures == {"none", "read"}

\* a store_note tool that rebuilds the index and adds to the vector store whether
\* or not the storage call has raised
tool_store_note_updates_always(project, title, content, failure) ==
    LET filepath == <<project_dir_of(project), generate_filename(title, clock)>>
    IN  /\ nstores < MaxStores
        /\ nstores' = nstores + 1
        /\ dirs' = IF failure = "mkdir" THEN dirs ELSE mkdir(dirs, project)
        /\ files' = IF failure \in {"mkdir", "open"} THEN files
                    ELSE IF failure = "write" THEN (filepath :> <<>>) @@ files
                    ELSE (filepath :> content) @@ files
        /\ index' = rebuild_index(files', dirs')
        /\ vector' = VectorStore_add_note(vector, project, title, content)
        /\ call' = [op |-> "store_note", failure |-> failure, raised |-> FALSE,
                    text |-> IF failure = "none"
                             THEN <<"Note", "stored", "successfully", "at:", filepath>>
                             ELSE <<"Error", "storing", "note:", failure>>]
        /\ UNCHANGED <<clock, web_index, last, obs, tasks, seen>>

\* the tool store_note: an exception of storage.store_note skips the rebuild and
\* the vector store and is turned into a text
tool_store_note(project, title, content, failure) ==
    LET filepath == <<project_dir_of(project), generate_filename(title, clock)>>
    IN  /\ nstores < MaxStores
        /\ nstores' = nstores + 1
        /\ dirs' = IF failure = "mkdir" THEN dirs ELSE mkdir(dirs, project)
        /\ files' = IF failure \in {"mkdir", "open"} THEN files
                    ELSE IF failure = "write" THEN (filepath :> <<>>) @@ files
                    ELSE (filepath :> content) @@ files
        /\ index' = IF failure = "none" THEN rebuild_index(files', dirs') ELSE index
        /\ vector' = IF failure = "none"
                     THEN VectorStore_add_note(vector, project, title, content)
                     ELSE vector
        /\ call' = [op |-> "store_note", failure |-> failure, raised |-> FALSE,
                    text |-> IF failure = "none"
                             THEN <<"Note", "stored", "successfully", "at:", filepath>>
                             ELSE <<"Error", "storing", "note:", failure>>]
        /\ UNCHANGED <<clock, web_index, last, obs, tasks, seen>>

\* the tool retrieve_note: FileNotFoundError and every other exception of
\* storage.retrieve_note are turned into two different texts
tool_retrieve_note(project, title, version, failure) ==
    LET result == retrieve_result(files, project, title, version)
        raises == IF ~result.ok THEN "FileNotFoundError"
                  ELSE IF failure = "read" THEN "OSError"
                  ELSE "none"
    IN  /\ dirs' = mkdir(dirs, project)
        /\ call' = [op |-> "retrieve_note", failure |-> raises, raised |-> FALSE,
                    text |-> IF raises = "FileNotFoundError"
                             THEN <<"Note", "not", "found:", raises>>
                             ELSE IF raises = "OSError"
                             THEN <<"Error", "retrieving", "note:", raises>>
                             ELSE <<"#", title, "Project:", project, "Version:",
                                    result.timestamp, result.content>>]
        /\ UNCHANGED <<files, clock, web_index, last, obs, nstores, index, vector, tasks,
                       seen>>

ToolNext ==
    \/ ServerTick
    \/ \E project \in AsyncProjects, title \in Titles, content \in Texts :
          \E failure \in StoreFailures : tool_store_note(project, title, content, failure)
    \/ \E project \in AsyncProjects, title \in Titles, version \in Versions :
          \E failure \in ReadFailures : tool_retrieve_note(project, title, version, failure)

ToolSpec == ServerInit /\ [][ToolNext]_vars

---------------------------------------------------------------------------
(* Notions the properties of the indexes use *)

\* the name the catalog and the index show for a sanitized name
display_name(safe) == Replace(safe, "_", " ")

\* the notes (project, title) of the inputs that have a version in the store
stored_notes(fls) ==
    {k \in ServerProjects \X Titles : ticks_of(fls, k[1], k[2]) # {}}

\* the key under which the index holds note k
index_key(k) == <<display_name(project_dir_of(k[1])), display_name(Sanitize(k[2]))>>

\* the index holds note k with the content and the timestamp of its latest version
IndexHoldsLatest(idx, fls, k) ==
    /\ index_key(k) \in index_keys(idx)
    /\ LET entry  == idx[index_key(k)[1]][index_key(k)[2]]
           newest == latest_stored(fls, k[1], k[2])
       IN  /\ entry.content = fls[newest]
           /\ Replace(entry.timestamp, ":", "-") = stamp_of(newest)

\* the index holds the latest version of every stored note and nothing else
IndexReflectsStore(idx, fls) ==
    /\ \A k \in stored_notes(fls) : IndexHoldsLatest(idx, fls, k)
    /\ \A key \in index_keys(idx) : \E k \in stored_notes(fls) : index_key(k) = key
    /\ index_count(idx) = Cardinality({index_key(k) : k \in stored_notes(fls)})

---------------------------------------------------------------------------
(* Properties of the indexes *)

\* C11: in every state reached by rebuild_index run on its own, the lexical index
\* has exactly one entry for every note that has a version in the store and no
\* other entry, and each entry holds the content and the timestamp of the note's
\* latest version.
C11_RebuildReflectsStore ==
    last.op = "rebuild_index" => IndexReflectsStore(index, files)

\* a rebuild has run while a note had two versions of different content and
\* another note existed
C11_Witness ==
    /\ last.op = "rebuild_index"
    /\ Cardinality(stored_notes(files)) >= 2
    /\ \E k \in stored_notes(files) :
          \E m, n \in ticks_of(files, k[1], k[2]) :
              /\ m < n
              /\ files[<<project_dir_of(k[1]), generate_filename(k[2], m)>>]
                     # files[<<project_dir_of(k[1]), generate_filename(k[2], n)>>]

\* C12: a search made while one rebuild_index is in flight reads either the whole
\* index from before the rebuild or the whole index the rebuild produces, never an
\* empty or partly filled one.
C12_SearchSeesWholeIndex ==
    seen.set => seen.index \in {"the one before", "the rebuilt one"}

\* C13: every content the lexical index holds is the whole content given to some
\* store_note call, also when a rebuild runs while a store_note has opened its
\* file and not yet written to it.
C13_IndexHoldsWholeContents ==
    \A key \in index_keys(index) : index[key[1]][key[2]].content \in Texts

\* the results, as a set, of a search of idx made in the iteration order it
results_of(idx, it, query, threshold) ==
    LET results == search(idx, it, query, NoProject, threshold)
    IN  {results[i] : i \in 1..Len(results)}

\* a search for the latest content of the stored note k returns k with that content
Searchable(idx, fls, k) ==
    \A it \in Iterations(idx) :
        \E r \in results_of(idx, it, fls[latest_stored(fls, k[1], k[2])], DefaultThreshold) :
            /\ <<r.project, r.title>> = index_key(k)
            /\ r.content = fls[latest_stored(fls, k[1], k[2])]

\* the storage change of the store_note or delete_note call of task t is made
mutated(t) ==
    IF t.op = "store_note"
    THEN t.path \in DOMAIN files /\ files[t.path] = t.content
    ELSE IF t.version = NoVersion
         THEN versions_of(files, t.project, t.title) = {}
         ELSE delete_note_result(files, t.project, t.title, t.version) = NotFound

\* when a store_note or delete_note call that ran alone has returned
AfterReturn ==
    last.op \in {"store_note", "delete_note"} =>
        /\ IndexReflectsStore(index, files)
        /\ \A k \in stored_notes(files) : Searchable(index, files, k)
        /\ last.op = "store_note" =>
              /\ <<last.project, last.title>> \in stored_notes(files)
              /\ files[latest_stored(files, last.project, last.title)] = last.content
        /\ (last.op = "delete_note" /\ last.version = NoVersion) =>
              \A query \in Queries : \A it \in Iterations(index) :
                  \A r \in results_of(index, it, query, 0) :
                      <<r.project, r.title>> # index_key(<<last.project, last.title>>)

\* in a step of a store_note or delete_note call that runs alone, and in a search
\* made beside it
InOrder ==
    \A i \in 1..Len(tasks) :
        (/\ tasks[i].alone /\ tasks[i].op \in {"store_note", "delete_note"}
         /\ tasks' = NoTasks \/ (Len(tasks') = 1 /\ tasks'[1].alone)) =>
            /\ index' # index => (mutated(tasks[i]) /\ files' = files)
            /\ vector' # vector =>
                  /\ mutated(tasks[i]) /\ files' = files
                  /\ index' = index /\ IndexReflectsStore(index, files)

\* C14: when a store_note or delete_note tool call that ran with no other call in
\* flight has returned, the lexical index reflects the store, a search for the
\* stored content returns the stored note with it, a note deleted with all its
\* versions is in no search result, and every other stored note is found by a
\* search for its content; within the call the index changes only after the
\* storage change and the vector index only after the rebuild.
C14_StoreThenRebuildThenVector ==
    [](AfterReturn) /\ [][InOrder]_vars

\* a delete_note of all versions has returned, having run alone, while another
\* note is still stored and held by the vector index
C14_Witness ==
    /\ last.op = "delete_note"
    /\ last.version = NoVersion
    /\ stored_notes(files) # {}
    /\ DOMAIN vector.entries # {}

\* the vector index holds note k under "project/title" with the content of its
\* latest version
VectorHoldsLatest(v, fls, k) ==
    /\ note_id(k[1], k[2]) \in DOMAIN v.entries
    /\ v.entries[note_id(k[1], k[2])].document = fls[latest_stored(fls, k[1], k[2])]

\* C15: after store_note and delete_note calls made one at a time on a working
\* vector store, the vector index has an entry "project/title" exactly for the
\* notes that have a version left, each with the content of the note's latest
\* remaining version.
C15_VectorFollowsStore ==
    vector.collection =>
        \A k \in ServerProjects \X Titles :
            IF k \in stored_notes(files) THEN VectorHoldsLatest(vector, files, k)
            ELSE note_id(k[1], k[2]) \notin DOMAIN vector.entries

\* the id of the entry rebuild_vector_index makes for note k, from the names the
\* catalog shows
catalog_id(k) == note_id(index_key(k)[1], index_key(k)[2])

\* C16: when rebuild_vector_index has run on its own on a working vector store, it
\* has succeeded, the vector index has one entry for every note that has a version
\* in the store, with the content of the note's latest version, it has no other
\* entry, and the count it reports is the number of these notes.
C16_VectorRebuildIsExact ==
    (last.op = "rebuild_vector_index" /\ vector.collection) =>
        /\ last.ok
        /\ \A k \in stored_notes(files) :
              /\ catalog_id(k) \in DOMAIN vector.entries
              /\ vector.entries[catalog_id(k)].document
                     = files[latest_stored(files, k[1], k[2])]
        /\ DOMAIN vector.entries = {catalog_id(k) : k \in stored_notes(files)}
        /\ last.count = Cardinality({catalog_id(k) : k \in stored_notes(files)})

\* the ids of the results of every search that can be made of store v
found_ids(v) ==
    UNION {UNION {{VectorStore_search(v, query, project, DefaultLimit, ranking)[i].id :
                      i \in 1..Min2(DefaultLimit, Len(ranking))} :
                  ranking \in Rankings(passing(v, project))} :
           query \in Queries, project \in Projects \cup {NoProject}}

\* C17: VectorStore.delete_note(project, title) does not raise, also when the
\* backend raises for a missing id; it leaves a store without the key that it
\* leaves unchanged, one delete more changes nothing, every entry under another key
\* is as before, and no search returns an entry with the key.
C17_VectorDeleteIsSafe ==
    call.op = "delete_note" =>
        LET id == note_id(call.project, call.title)
        IN  /\ ~call.raised
            /\ id \notin DOMAIN call.before.entries => vector = call.before
            /\ \A backend_raises \in BOOLEAN :
                  /\ ~VectorStore_delete_note(vector, call.project, call.title,
                                              backend_raises).raised
                  /\ VectorStore_delete_note(vector, call.project, call.title,
                                             backend_raises).store = vector
            /\ \A other \in (DOMAIN call.before.entries \cup DOMAIN vector.entries) \ {id} :
                  /\ other \in DOMAIN call.before.entries
                  /\ other \in DOMAIN vector.entries
                  /\ vector.entries[other] = call.before.entries[other]
            /\ id \notin found_ids(vector)

\* a delete_note of a key that the store does not hold, for which the backend
\* raised, while the store holds other entries
C17_Witness ==
    /\ call.op = "delete_note"
    /\ call.backend_raises
    /\ vector.collection
    /\ note_id(call.project, call.title) \notin DOMAIN call.before.entries
    /\ DOMAIN call.before.entries # {}

\* a store without a collection holds nothing and has no client
Degraded(v) == ~v.collection /\ ~v.client /\ v.entries = NoEntries

\* C18: a VectorStore constructed while the backend is not installed or fails to
\* initialize is constructed without raising and is degraded; on a degraded store
\* add_note, delete_note and clear_all do not raise and change nothing, search
\* returns the empty list, and the store stays degraded.
C18_DegradedStoreStaysNoOp ==
    /\ [](/\ (call.op = "init" /\ call.backend # "available") =>
                (~call.raised /\ Degraded(vector))
          /\ ~vector.collection => Degraded(vector))
    /\ [][Degraded(vector) =>
            /\ vector' = vector
            /\ ~call'.raised
            /\ call'.op = "search" => call'.results = <<>>]_vars

\* add_note was called on a store constructed without a backend
C18_Witness ==
    /\ call.op = "add_note"
    /\ Degraded(call.before)
    /\ Degraded(vector)

\* the position of key in the iteration order it
position(it, key) == CHOOSE i \in 1..Len(it) : it[i] = key

\* the better of the two partial ratios of the note under key
score_of(idx, query, key) ==
    LET title_score   == partial_ratio(lower(query), lower(key[2]))
        content_score == partial_ratio(lower(query), lower(idx[key[1]][key[2]].content))
    IN  IF ScoreGE(title_score, content_score) THEN title_score ELSE content_score

\* C19: search returns each note of the index that is in scope and whose score, the
\* better of the partial ratios of the query with its title and with its content,
\* is at least the threshold, once, and no other note; the results are in
\* descending order of score, and results of equal score are in the order in which
\* the index is iterated.
C19_SearchThresholdAndOrder ==
    call.op = "search" =>
        LET results == call.results
            in_scope == {k \in index_keys(index) :
                            call.project = NoProject \/ k[1] = call.project}
            passes(k) == ScoreGE(score_of(index, call.query, k), <<call.threshold, 1>>)
            key(i) == <<results[i].project, results[i].title>>
        IN  /\ {key(i) : i \in 1..Len(results)} = {k \in in_scope : passes(k)}
            /\ Len(results) = Cardinality({k \in in_scope : passes(k)})
            /\ \A i \in 1..Len(results) :
                  /\ results[i].score = score_of(index, call.query, key(i))
                  /\ results[i].content = index[key(i)[1]][key(i)[2]].content
            /\ \A i, j \in 1..Len(results) :
                  i < j => /\ ScoreGE(results[i].score, results[j].score)
                           /\ results[i].score = results[j].score =>
                                 position(call.it, key(i)) < position(call.it, key(j))

\* a search returned two notes that score exactly the threshold, and the index
\* holds a note that scores less
C19_Witness ==
    /\ call.op = "search"
    /\ \E i, j \in 1..Len(call.results) :
          /\ i < j
          /\ call.results[i].score = <<call.threshold, 1>>
          /\ call.results[j].score = <<call.threshold, 1>>
    /\ Len(call.results) < index_count(index)

\* C20: for every project name P given to store_note, a search limited to P
\* returns only results of project P, and it returns every note stored under P
\* that the same search without a project returns.
C20_ProjectFilterIsExact ==
    \A P \in ServerProjects : \A query \in Queries : \A it \in Iterations(index) :
        LET limited == search(index, it, query, P, DefaultThreshold)
            every   == search(index, it, query, NoProject, DefaultThreshold)
        IN  /\ \A i \in 1..Len(limited) : limited[i].project = P
            /\ \A i \in 1..Len(every) :
                  (\E k \in stored_notes(files) :
                      k[1] = P /\ index_key(k) = <<every[i].project, every[i].title>>)
                  => \E j \in 1..Len(limited) :
                        /\ limited[j].title = every[i].title
                        /\ limited[j].content = every[i].content
                        /\ limited[j].score = every[i].score

\* str.upper() on one character: the upper case of U+00DF is "SS"
UpperCase ==
    ("a" :> <<"A">>) @@ ("b" :> <<"B">>) @@ ("c" :> <<"C">>) @@ ("s" :> <<"S">>)
        @@ ("x" :> <<"X">>) @@ (Eszett :> <<"S", "S">>)

RECURSIVE upper(_)
upper(s) ==
    IF s = <<>> THEN <<>>
    ELSE (IF Head(s) \in DOMAIN UpperCase THEN UpperCase[Head(s)] ELSE <<Head(s)>>)
         \o upper(Tail(s))

\* the notes and scores of a list of results, in its order
notes_and_scores(results) ==
    [i \in 1..Len(results) |-> <<results[i].project, results[i].title, results[i].score>>]

\* the search of call made with its query written as query
SameSearch(query) ==
    notes_and_scores(search(index, call.it, query, call.project, call.threshold))
        = notes_and_scores(call.results)

---------------------------------------------------------------------------
(* Properties of the catalog and of the names *)

\* C22: list_notes(project) has one entry for each note of the project that has a
\* version, under the title the catalog shows, with the timestamp of the note's
\* latest version as latest_version; it has no other entry, so none for a note
\* whose versions are all deleted; and its entries are in ascending order of title.
C22_ListNotesIsExact ==
    \A project \in Projects :
        LET notes == list_notes_result(files, project)
            entries(title) == {i \in 1..Len(notes) :
                                 notes[i].title = display_name(Sanitize(title))}
        IN  /\ \A title \in Titles :
                  IF ticks_of(files, project, title) = {} THEN entries(title) = {}
                  ELSE /\ Cardinality(entries(title)) = 1
                       /\ \A i \in entries(title) :
                             notes[i].latest_version
                                 = Shown(Max(ticks_of(files, project, title)))
            /\ \A i \in 1..Len(notes) : \E title \in Titles : i \in entries(title)
            /\ \A i, j \in 1..Len(notes) : i < j => StrLT(notes[i].title, notes[j].title)

\* a project holds a note with two versions while all versions of its other note
\* have just been deleted
C22_Witness ==
    /\ last.op = "delete_note"
    /\ ticks_of(files, last.project, last.title) = {}
    /\ \E title \in Titles : Cardinality(ticks_of(files, last.project, title)) >= 2

\* C23: list_notes of a project in which no note has a version, be it that no note
\* was ever stored in it or that all were deleted, returns the empty list.
C23_ListNotesOfEmptyProject ==
    \A project \in Projects :
        (\A title \in Titles : ticks_of(files, project, title) = {})
            => list_notes_result(files, project) = <<>>

\* one project was never created, and the other has a directory and, after a
\* delete, no note left
C23_Witness ==
    /\ \E project \in Projects : project_dir_of(project) \notin dirs
    /\ last.op = "delete_note"
    /\ project_dir_of(last.project) \in dirs
    /\ \A title \in Titles : ticks_of(files, last.project, title) = {}

\* the step is a call of store_note
StoreStep == nstores' = nstores + 1

\* C24: a store_note whose project or title sanitizes to the empty string fails
\* and writes nothing: the files and the directories are as before, so no file is
\* directly in the base directory and none has an empty title, and list_projects,
\* list_notes and get_all_notes return what they returned before.
C24_EmptyNamesAreRejected ==
    [][(StoreStep /\ (Sanitize(last'.project) = <<>> \/ Sanitize(last'.title) = <<>>)) =>
          /\ ~last'.result.ok
          /\ files' = files
          /\ dirs' = dirs
          /\ \A q \in DOMAIN files' : q[1] # <<>> /\ ~StartsWith(q[2], <<"_">>)
          /\ list_projects_result(dirs') = list_projects_result(dirs)
          /\ \A project \in RawProjects :
                list_notes_result(files', project) = list_notes_result(files, project)
          /\ get_all_notes(files', dirs') = get_all_notes(files, dirs)]_vars

\* C25: the sanitizer gives every name a string made only of alphanumeric
\* characters, hyphens and underscores, so without a space, a slash, a colon or an
\* asterisk, and it returns a sanitized name unchanged.
C25_SanitizerIsIdempotent ==
    call.op = "sanitize" =>
        /\ call.result \in Seq(NameCharacters)
        /\ \A i \in 1..Len(call.result) :
              isalnum(call.result[i]) \/ call.result[i] \in {"-", "_"}
        /\ \A i \in 1..Len(call.result) : call.result[i] \notin {" ", "/", ":", "*"}
        /\ Sanitize(call.result) = call.result

\* a name with a space between two kept characters was sanitized
C25_Witness ==
    /\ call.op = "sanitize"
    /\ \E i \in 1..Len(call.raw) :
          /\ call.raw[i] = " "
          /\ i <= Len(call.result)
          /\ call.result[i] = "_"

\* C26: no call of the tools store_note and retrieve_note raises.  A store_note
\* whose storage call raised returns a text with the word "Error" and leaves the
\* lexical index and the vector index as they were.  A retrieve_note returns a
\* text that begins "Note not found:" when the storage call raised
\* FileNotFoundError and one that begins "Error retrieving note:" when it raised
\* anything else.
C26_ToolsTurnFailuresIntoText ==
    /\ [](/\ call.op \in {"store_note", "retrieve_note"} => ~call.raised
          /\ (call.op = "store_note" /\ call.failure # "none") =>
                Contains(<<"Error">>, call.text)
          /\ (call.op = "retrieve_note" /\ call.failure = "FileNotFoundError") =>
                /\ StartsWith(call.text, <<"Note", "not", "found:">>)
                /\ ~StartsWith(call.text, <<"Error", "retrieving", "note:">>)
          /\ (call.op = "retrieve_note" /\ call.failure = "OSError") =>
                /\ StartsWith(call.text, <<"Error", "retrieving", "note:">>)
                /\ ~StartsWith(call.text, <<"Note", "not", "found:">>))
    /\ [][(StoreStep /\ call'.failure # "none") =>
             (index' = index /\ vector' = vector)]_vars

\* a store_note failed in its write, on a working vector store, after a note had
\* been stored and indexed
C26_Witness ==
    /\ call.op = "store_note"
    /\ call.failure = "write"
    /\ vector.collection
    /\ DOMAIN index # {}
    /\ \E q \in DOMAIN files : files[q] = <<>>

\* C27: the count rebuild_index returns is the number of notes (project, title)
\* that have a version in the store, and the number of entries of the index it
\* built, however many versions the notes have.
C27_RebuildCountsNotes ==
    last.op = "rebuild_index" =>
        /\ last.count = Cardinality(stored_notes(files))
        /\ last.count = index_count(index)

\* a rebuild counted two notes in a store of three files
C27_Witness ==
    /\ last.op = "rebuild_index"
    /\ last.count = 2
    /\ Cardinality(DOMAIN files) = 3

\* the characters a sanitized name is made of
IsSanitized(name) ==
    \A i \in 1..Len(name) : isalnum(name[i]) \/ name[i] \in {"-", "_"}

\* <stem>_<timestamp>.md, where timestamp is the ISO time of tick n with a hyphen
\* for each colon
IsVersionName(name, stem, n) ==
    LET stamp == isoformat(n)
    IN  /\ Len(name) = Len(stem) + 1 + Len(stamp) + Len(MdSuffix)
        /\ SubSeq(name, 1, Len(stem)) = stem
        /\ name[Len(stem) + 1] = "_"
        /\ \A i \in 1..Len(stamp) :
              name[Len(stem) + 1 + i] = (IF stamp[i] = ":" THEN "-" ELSE stamp[i])
        /\ EndsWith(name, MdSuffix)

\* C28: a store_note call returns the path <sanitized project>/<sanitized
\* title>_<timestamp>.md under the base directory, the timestamp being the ISO time
\* of the call with each colon replaced by a hyphen; after the call that file holds
\* the content, every other file is as before and there is no other new file, and
\* the directories are as before except for the project's directory.
C28_StoreWritesOneFile ==
    [][StoreStep =>
          LET path == last'.result.path
          IN  /\ last'.result.ok
              /\ IsSanitized(path[1]) /\ path[1] = Sanitize(last'.project)
              /\ IsVersionName(path[2], Sanitize(last'.title), clock)
              /\ \A i \in 1..Len(path[2]) : path[2][i] # ":"
              /\ DOMAIN files' = DOMAIN files \cup {path}
              /\ files'[path] = last'.content
              /\ \A q \in DOMAIN files : q # path => files'[q] = files[q]
              /\ dirs \subseteq dirs'
              /\ dirs' \ dirs \subseteq {path[1]}
              /\ (path[1] # <<>>) => path[1] \in dirs']_vars

\* a store_note with a title that has a character the sanitizer drops has made a
\* new directory beside an existing one with a file
C28_Witness ==
    /\ last.op = "store_note"
    /\ last.title # Sanitize(last.title)
    /\ Sanitize(last.title) # <<>>
    /\ Cardinality(dirs) >= 1
    /\ Cardinality(DOMAIN files) >= 2
    /\ clock >= 1

---------------------------------------------------------------------------
(* Properties that relate the catalog, retrieve_note and store_note *)

\* the entries list_notes shows for a title
entries_of(fls, project, title) ==
    LET notes == list_notes_result(fls, project)
    IN  {notes[i] : i \in {j \in 1..Len(notes) : notes[j].title = display_name(Sanitize(title))}}

\* C29: for every project that list_projects returns and every entry of its
\* list_notes, retrieve_note of the entry's title succeeds with the timestamp
\* latest_version, and retrieve_note with version = latest_version returns the same
\* content.
C29_CatalogNamesRetrieve ==
    \A i \in 1..Len(list_projects_result(dirs)) :
        LET p     == list_projects_result(dirs)[i]
            notes == list_notes_result(files, p)
        IN  \A j \in 1..Len(notes) :
                LET newest == retrieve_result(files, p, notes[j].title, NoVersion)
                    named  == retrieve_result(files, p, notes[j].title, notes[j].latest_version)
                IN  /\ newest.ok
                    /\ newest.timestamp = notes[j].latest_version
                    /\ named.ok
                    /\ named.content = newest.content

\* C30: a store_note step leaves every other note as it was: the set of its
\* versions, what retrieve_note without a version returns for it and its list_notes
\* entry.
C30_StoreChangesOneNote ==
    [][StoreStep =>
          \A project \in Projects, title \in Titles :
              <<project, title>> # <<last'.project, last'.title>> =>
                  /\ versions_of(files', project, title) = versions_of(files, project, title)
                  /\ retrieve_result(files', project, title, NoVersion)
                         = retrieve_result(files, project, title, NoVersion)
                  /\ entries_of(files', project, title) = entries_of(files, project, title)]_vars

---------------------------------------------------------------------------
(* server.py: store_note tool calls that interleave with each other *)

\* Only store_note is called; its calls interleave at their awaits as in AsyncSpec.

StoresNext ==
    \/ AsyncTick
    \/ \E project \in AsyncProjects, title \in Titles, content \in Texts :
            async_store_open(project, title, content)
    \/ \E i \in 1..Len(tasks) : async_store_write(i)
    \/ \E i \in 1..Len(tasks) : async_rebuild_begin(i)
    \/ \E i \in 1..Len(tasks) : \E note \in tasks[i].pending : async_rebuild_read(i, note)
    \/ \E i \in 1..Len(tasks) : async_vector_update(i)

StoresSpec == AsyncInit /\ [][StoresNext]_vars

---------------------------------------------------------------------------
(* Properties of calls that interleave *)

\* C31: when every store_note tool call has returned, whether they ran one after
\* the other or interleaved, the lexical index holds every stored note with the
\* content of its latest version, and nothing else.
C31_IndexAfterConcurrentStores ==
    tasks = NoTasks => IndexReflectsStore(index, files)

\* C34: when the store_note tool calls for one note have returned, the vector index
\* entry of the note holds the content of the note's latest version, which is the
\* content retrieve_note without a version returns.
C34_VectorAfterConcurrentStores ==
    tasks = NoTasks =>
        \A k \in stored_notes(files) :
            /\ note_id(k[1], k[2]) \in DOMAIN vector.entries
            /\ vector.entries[note_id(k[1], k[2])].document
                   = files[latest_stored(files, k[1], k[2])]
            /\ vector.entries[note_id(k[1], k[2])].document
                   = retrieve_result(files, k[1], k[2], NoVersion).content

---------------------------------------------------------------------------
(* search.py: a rebuild_index beside stores and the web server's deletes *)

\* The tools store_note and rebuild_index interleave at their awaits; the web
\* server, a process of its own on the same directory, deletes notes meanwhile.

\* the titles given to the web server: those of the inputs and a file-name form
WebTitles == Titles \cup {<<"N", "_", "A">>}

RaceNext ==
    \/ AsyncTick
    \/ \E project \in AsyncProjects, title \in Titles, content \in Texts :
            async_store_open(project, title, content)
    \/ \E i \in 1..Len(tasks) : async_store_write(i)
    \/ \E i \in 1..Len(tasks) : async_rebuild_begin(i)
    \/ \E i \in 1..Len(tasks) : \E note \in tasks[i].pending : async_rebuild_read(i, note)
    \/ \E i \in 1..Len(tasks) : async_vector_update(i)
    \/ async_rebuild_index
    \/ \E project \in AsyncProjects, title \in WebTitles : web_delete_note(project, title)

RaceSpec == AsyncInit /\ [][RaceNext]_vars

\* a step in which a rebuild ends with the error of a file that is gone
RebuildRaises ==
    \E i \in 1..Len(tasks) :
        /\ tasks[i].pc = "read"
        /\ \E note \in tasks[i].pending : note.path \notin DOMAIN files
        /\ tasks' = without(tasks, i)
        /\ index' = index

\* a step in which a rebuild_index tool call that ran beside no other tool call ends
LoneRebuildEnds ==
    /\ Len(tasks) = 1
    /\ tasks[1].op = "rebuild_index"
    /\ tasks[1].alone
    /\ tasks' = NoTasks

\* C32: a rebuild_index beside stores and deletes never ends with an error; every
\* content it puts in the index is the whole content of a stored version; and when
\* it ends the index has an entry for every note that was stored all along, also
\* when a file it had listed was deleted before it was read.
C32_RebuildSurvivesRaces ==
    /\ [](\A key \in index_keys(index) : index[key[1]][key[2]].content \in Texts)
    /\ [][~RebuildRaises]_vars
    /\ [][LoneRebuildEnds =>
             \A k \in stored_notes(files') : index_key(k) \in index_keys(index')]_vars

---------------------------------------------------------------------------
(* storage.py: retrieve_note beside store_note calls in flight *)

\* A retrieve_note in flight is a task with pc = "open": it has chosen target_file,
\* kept in path, and awaits aiofiles.open and f.read().  obs is what the last
\* retrieve_note returned.

\* retrieve_note from its call to the await of aiofiles.open(target_file, "r"), or
\* to the FileNotFoundError it raises
async_retrieve_begin(project, title, version) ==
    LET target_file == retrieve_target(files, project, title, version)
    IN  /\ Len(tasks) < MaxTasks
        /\ dirs' = mkdir(dirs, project)
        /\ tasks' = IF target_file = <<>> THEN tasks
                    ELSE Append(joined(tasks),
                                Task("retrieve_note", project, title, version, <<>>,
                                     <<project_dir_of(project), target_file>>, "open", {},
                                     EmptyIndex, tasks = NoTasks))
        /\ UNCHANGED <<files, clock, web_index, last, obs, nstores, index, vector, seen, call>>

\* content = await f.read(), and the return of (content, timestamp)
async_retrieve_read(i) ==
    /\ tasks[i].pc = "open"
    /\ obs' = [set |-> TRUE, project |-> tasks[i].project, title |-> tasks[i].title,
               content |-> files[tasks[i].path],
               timestamp |-> Replace(SplitLast(Stem(tasks[i].path[2])), "-", ":")]
    /\ tasks' = without(tasks, i)
    /\ UNCHANGED <<dirs, files, clock, web_index, last, nstores, index, vector, seen, call>>

ReadRaceNext ==
    \/ AsyncTick
    \/ \E project \in AsyncProjects, title \in Titles, content \in Texts :
            async_store_open(project, title, content)
    \/ \E i \in 1..Len(tasks) : async_store_write(i)
    \/ \E i \in 1..Len(tasks) : async_rebuild_begin(i)
    \/ \E i \in 1..Len(tasks) : \E note \in tasks[i].pending : async_rebuild_read(i, note)
    \/ \E i \in 1..Len(tasks) : async_vector_update(i)
    \/ \E project \in AsyncProjects, title \in Titles, version \in Versions :
            async_retrieve_begin(project, title, version)
    \/ \E i \in 1..Len(tasks) : async_retrieve_read(i)

ReadRaceSpec == AsyncInit /\ [][ReadRaceNext]_vars

\* the complete contents given to the store_note calls of note (project, title) made
\* so far: those of its written versions and those of its calls that have opened
\* their file and not written it
given_contents(fls, ts, project, title) ==
    ({fls[u] : u \in versions_of(fls, project, title)} \ {<<>>})
        \cup {ts[i].content : i \in {j \in 1..Len(ts) :
                                        /\ ts[j].op = "store_note"
                                        /\ ts[j].project = project
                                        /\ ts[j].title = title}}

\* C33: the content a retrieve_note returns is the complete content given to a
\* store_note call for that note, also when a store_note for it is in flight: never
\* an empty or truncated string, and never the content of another note.
C33_RetrieveReturnsWholeContent ==
    [][\A i \in 1..Len(tasks) :
          async_retrieve_read(i) =>
              obs'.content \in given_contents(files, tasks, obs'.project, obs'.title)]_vars

---------------------------------------------------------------------------
(* server.py: the vector index under store_note and rebuild_vector_index *)

\* store_note and rebuild_vector_index only, called one at a time
StoreRebuildNext ==
    \/ ServerTick
    \/ \E project \in ServerProjects, title \in Titles, content \in Texts :
            server_store_note(project, title, content)
    \/ server_rebuild_vector_index

StoreRebuildSpec == ServerInit /\ [][StoreRebuildNext]_vars

\* the note an entry of the vector index is about, by its directory and file stem
note_of(entry) ==
    <<project_dir_of(entry.metadata.project), Sanitize(entry.metadata.title)>>

\* the documents of a vector store by id
documents(v) == [id \in DOMAIN v.entries |-> v.entries[id].document]

\* C35: a rebuild_vector_index on a vector index that the store_note calls have
\* maintained leaves it with the same keys and the same contents, and no note ever
\* has two entries, one under the names given to store_note and one under the
\* names the catalog shows.
C35_VectorRebuildEqualsIncremental ==
    /\ [](\A a, b \in DOMAIN vector.entries :
              note_of(vector.entries[a]) = note_of(vector.entries[b]) => a = b)
    /\ [][(server_rebuild_vector_index /\ vector.collection) =>
             documents(vector') = documents(vector)]_vars

---------------------------------------------------------------------------
(* search.py: _generate_excerpt as a function of a content and a query *)

\* call is the excerpt to make (op = "input") or the one made (op = "excerpt").
\* A content is a word with x's before it and y's after it, as many as put the word
\* at, just before and just after the 150 characters of context.

Pads == {0, 1, context_chars - 1, context_chars, context_chars + 1}

Pad(c, n) == [i \in 1..n |-> c]

ExcerptWords == {<<"a", "B">>, <<"a", "B", "-", "A", "b">>}

ExcerptContents ==
    {Pad("x", before) \o word \o Pad("y", after) :
        before \in Pads, after \in Pads, word \in ExcerptWords}

ExcerptQueries == {<<"A", "b">>, <<"a", "B">>, <<"B", "-">>, <<"z">>, <<>>}

ExcerptInit ==
    /\ dirs = {}
    /\ files = [q \in {} |-> <<>>]
    /\ clock = 0
    /\ web_index = EmptyIndex
    /\ last = [op |-> "init"]
    /\ obs = NoObs
    /\ nstores = 0
    /\ index = EmptyIndex
    /\ vector = VectorStore_init("not installed")
    /\ tasks = NoTasks
    /\ seen = NoSeen
    /\ \E content \in ExcerptContents, query \in ExcerptQueries :
          call = [op |-> "input", content |-> content, query |-> query, excerpt |-> <<>>]

excerpt_call ==
    /\ call.op = "input"
    /\ call' = [call EXCEPT !.op = "excerpt",
                            !.excerpt = generate_excerpt(call.content, call.query)]
    /\ UNCHANGED <<dirs, files, clock, web_index, last, obs, nstores, index, vector, tasks,
                   seen>>

ExcerptNext == excerpt_call

ExcerptSpec == ExcerptInit /\ [][ExcerptNext]_vars

---------------------------------------------------------------------------
(* Properties of the excerpt *)

\* the 0-based positions at which the lower-cased query occurs in the lower-cased
\* content
occurrences(content, query) ==
    {i \in 0..(Len(content) - Len(query)) :
        \A j \in 1..Len(query) : lower(content)[i + j] = lower(query)[j]}

\* the characters of content from 0-based position from up to, not including, to
slice(content, from, to) == [i \in 1..(to - from) |-> content[from + i]]

\* C36: when the lower-cased query occurs in the lower-cased content, first at pos,
\* the excerpt is the slice of content from max(0, pos - 150) to min(len(content),
\* pos + len(query) + 150), with "..." before it exactly when the slice starts after
\* position 0 and "..." after it exactly when it ends before the end of content;
\* when the query does not occur, the excerpt is the first 300 characters of content,
\* followed by "..." exactly when content is longer than 300 characters.
C36_ExcerptIsTheSliceAroundTheMatch ==
    call.op = "excerpt" =>
        LET content == call.content
            at      == occurrences(content, call.query)
        IN  IF at # {}
            THEN LET pos  == CHOOSE i \in at : \A j \in at : i <= j
                     from == IF pos - 150 > 0 THEN pos - 150 ELSE 0
                     to   == IF pos + Len(call.query) + 150 < Len(content)
                             THEN pos + Len(call.query) + 150 ELSE Len(content)
                 IN  call.excerpt = (IF from > 0 THEN <<".", ".", ".">> ELSE <<>>)
                                    \o slice(content, from, to)
                                    \o (IF to < Len(content) THEN <<".", ".", ".">> ELSE <<>>)
            ELSE IF Len(content) > 300
                 THEN call.excerpt = slice(content, 0, 300) \o <<".", ".", ".">>
                 ELSE call.excerpt = content

\* an excerpt of a content of more than 300 characters around a match that is
\* written in another case than the query, cut on both sides
C36_Witness ==
    /\ call.op = "excerpt"
    /\ Len(call.content) > 300
    /\ find(call.content, call.query) = -1
    /\ occurrences(call.content, call.query) # {}
    /\ Len(call.excerpt) = 150 + Len(call.query) + 150 + 6

---------------------------------------------------------------------------
(* Properties of the web server's deletes *)

\* the titles list_notes shows for a project
listed_titles(fls, project) ==
    {list_notes_result(fls, project)[i].title : i \in 1..Len(list_notes_result(fls, project))}

\* C37: the web delete_note of a title that list_notes shows for the project removes
\* every version of that note and no other file, reports their number, and leaves
\* the note out of list_notes and out of the rebuilt index; it does not report
\* "not found" for a note that has versions.
C37_WebDeleteOfListedTitle ==
    [][\A project \in Projects, title \in Titles :
          (web_delete_note(project, title) /\ title \in listed_titles(files, project)) =>
              /\ versions_of(files, project, title) # {}
              /\ DOMAIN files' = (DOMAIN files) \ versions_of(files, project, title)
              /\ last'.op = "web_delete_note"
              /\ last'.result.deleted = Cardinality(versions_of(files, project, title))
              /\ title \notin listed_titles(files', project)
              /\ index_key(<<project, title>>) \notin index_keys(web_index')]_vars

---------------------------------------------------------------------------
(* web_server.py: delete_project *)

\* call is the last delete_project request: whether the project's directory existed
\* when it arrived and the message of the redirect it answered with.  The project
\* names of the requests are those of the stores and one that is never stored; each
\* keeps at least one character when sanitized.

WebProjects == Projects \cup {<<"T">>}

\* web_server.delete_project: storage._get_project_dir makes the directory if it is
\* missing, so the test of project_path.exists() always finds it; shutil.rmtree
\* removes it with its files and the index is rebuilt.  For a name that sanitizes to
\* nothing the directory is base_dir itself: everything is removed and the rebuild
\* raises at base_dir.iterdir(), after it has emptied the index.
web_delete_project(project_name) ==
    LET project_path == project_dir_of(project_name)
        is_base == project_path = <<>>
        gone == IF is_base THEN DOMAIN files ELSE {q \in DOMAIN files : q[1] = project_path}
    IN  /\ dirs' = IF is_base THEN {} ELSE dirs \ {project_path}
        /\ files' = unlink(files, gone)
        /\ web_index' = IF is_base THEN EmptyIndex ELSE rebuild_index(files', dirs')
        /\ call' = [op      |-> "web_delete_project",
                    existed |-> is_base \/ project_path \in dirs,
                    message |-> IF is_base THEN "Error deleting project"
                                ELSE "deleted successfully"]
        /\ obs' = IF obs.set /\ obs.path \in gone THEN NoObs ELSE obs
        /\ UNCHANGED <<clock, last, nstores, index, vector, tasks, seen>>

WebNext ==
    \/ Tick
    \/ \E project \in Projects, title \in Titles, content \in Contents :
            store_note(project, title, content)
    \/ \E project \in Projects, title \in Titles : web_delete_note(project, title)
    \/ \E project \in WebProjects : web_delete_project(project)

WebSpec == Init /\ [][WebNext]_vars

\* C38: a delete_project for a project that did not exist answers "not found" and
\* leaves the files and the result of list_projects as they were; it answers
\* "deleted successfully" only for a project that existed.
C38_DeleteOfMissingProject ==
    /\ [](call.op = "web_delete_project" =>
              /\ ~call.existed => call.message = "not found"
              /\ call.message = "deleted successfully" => call.existed)
    /\ [][\A project \in WebProjects :
             (web_delete_project(project) /\ project_dir_of(project) \notin dirs) =>
                 /\ files' = files
                 /\ list_projects_result(dirs') = list_projects_result(dirs)]_vars

====
